---- MODULE Spec2Model ----
(***************************************************************************)
(* A model of the Z80 CPU interpreter of grafalex82/zxemulator             *)
(* (src/src/cpu.py) together with the bus it talks to (src/src/machine.py, *)
(* src/src/interfaces.py, src/src/ram.py).                                 *)
(*                                                                         *)
(* The CPU object is the record `cpu` (one field per attribute of the      *)
(* Python object, the leading underscore dropped), the RAM buffer is the   *)
(* sparse function `ram` (offset -> non-zero byte; every other cell is 0,   *)
(* as RAM.set_size leaves it).  A handler is an operator on a context `z`: *)
(* the CPU fields plus `ram`, `exc` (the Python exception that ended the   *)
(* call, "none" while it is running) and `ret` (the value a helper         *)
(* returned).  Python integers are unbounded, so nothing is truncated here *)
(* unless the source truncates it.                                         *)
(***************************************************************************)
EXTENDS Integers, Sequences, FiniteSets, TLC

\* cpu, ram: the CPU object and the RAM buffer; raised: the exception the last
\* call ended with; last, last2: the last two calls made; prev: cpu, ram and
\* bus reads as they stood before the last call; entry: cpu and ram as the
\* run started; nsched, nreset: calls so far; machine: the configuration of
\* the Machine (strict flag, memory range, I/O ports); running: the frame of
\* the Emulator.run call in progress
VARIABLES cpu, ram, raised, last, last2, prev, entry, nsched, nreset, machine, running

vars == <<cpu, ram, raised, last, last2, prev, entry, nsched, nreset, machine, running>>

(***************************************************************************)
(* Bounds of the exploration.                                              *)
(***************************************************************************)
\* step() is offered while the cycle counter is below this
MaxCycles == 60
\* calls of schedule_interrupt in one run
MaxSched == 2
\* calls of reset in one run
MaxReset == 1

(***************************************************************************)
(* Python integer arithmetic.                                              *)
(***************************************************************************)
\* 2^n
RECURSIVE Pow2(_)
Pow2(n) == IF n = 0 THEN 1 ELSE 2 * Pow2(n - 1)

\* x >> n and x << n
Shr(x, n) == x \div Pow2(n)
Shl(x, n) == x * Pow2(n)

\* x & (2^n - 1)
Low(x, n) == x % Pow2(n)

\* bit n of x (Python's x & (1 << n) != 0, also for negative x)
Bit(x, n) == (x \div Pow2(n)) % 2 = 1

\* bitwise operators on non-negative integers
RECURSIVE NatAnd(_, _)
NatAnd(x, y) ==
    IF x = 0 \/ y = 0 THEN 0
    ELSE (IF x % 2 = 1 /\ y % 2 = 1 THEN 1 ELSE 0) + 2 * NatAnd(x \div 2, y \div 2)

RECURSIVE NatXor(_, _)
NatXor(x, y) ==
    IF x = 0 THEN y
    ELSE IF y = 0 THEN x
    ELSE (IF x % 2 # y % 2 THEN 1 ELSE 0) + 2 * NatXor(x \div 2, y \div 2)

RECURSIVE NatOr(_, _)
NatOr(x, y) ==
    IF x = 0 THEN y
    ELSE IF y = 0 THEN x
    ELSE (IF x % 2 = 1 \/ y % 2 = 1 THEN 1 ELSE 0) + 2 * NatOr(x \div 2, y \div 2)

\* ~x
PyNot(x) == -x - 1

\* x ^ y on Python integers of either sign
PyXor(x, y) ==
    IF x >= 0 /\ y >= 0 THEN NatXor(x, y)
    ELSE IF x < 0 /\ y < 0 THEN NatXor(PyNot(x), PyNot(y))
    ELSE IF x < 0 THEN PyNot(NatXor(PyNot(x), y))
    ELSE PyNot(NatXor(x, PyNot(y)))

\* x & y where y >= 0 (the only shape the source uses with a negative x)
PyAnd(x, y) ==
    IF x >= 0 THEN NatAnd(x, y)
    ELSE y - NatAnd(PyNot(x), y)

\* x | y on non-negative operands
PyOr(x, y) == NatOr(x, y)

\* utils.set_bit and utils.is_bit_set
set_bit(value, bit) == PyOr(value, Pow2(bit))
is_bit_set(value, bit) == Bit(value, bit)

\* the value Python's None stands for in _instruction_prefix
None == -1

(***************************************************************************)
(* The bus: Machine over one MemoryDevice(RAM(), 0x0000, 0xffff), not      *)
(* strict.                                                                 *)
(***************************************************************************)
startaddr == 0
endaddr == 65535

\* Machine.__init__ followed by add_memory of that device and add_io of a
\* device at port 0xFE: the strict flag, the (startaddr, endaddr) of the
\* memory and the ports of Machine._io
NewMachine == [strict |-> FALSE, memory |-> <<startaddr, endaddr>>, io |-> {254}]

\* RAM.get_size after MemoryDevice.__init__ called set_size
ram_size == endaddr - startaddr + 1

\* MemoryMgr.get_memory_for_addr: is a memory registered for addr
get_memory_for_addr(addr) == addr >= startaddr /\ addr <= endaddr

\* RAM.read_byte: self._ram[offset]
ram_read_byte(m, offset) == IF offset \in DOMAIN m THEN m[offset] ELSE 0

\* self._ram[offset] = value
ram_store(m, offset, value) ==
    IF value = 0
    THEN [o \in (DOMAIN m) \ {offset} |-> m[o]]
    ELSE [o \in (DOMAIN m) \cup {offset} |-> IF o = offset THEN value ELSE m[o]]

Ok(z) == z.exc = "none"

Raise(z, e) == IF Ok(z) THEN [z EXCEPT !.exc = e] ELSE z

\* Machine.read_memory_byte: 0xff when no memory answers
read_memory_byte(z, addr) ==
    IF ~get_memory_for_addr(addr) THEN 255
    ELSE ram_read_byte(z.ram, addr - startaddr)

\* RAM.read_word raises IndexError when the high byte is past the buffer
read_word_raises(addr) ==
    get_memory_for_addr(addr) /\ (addr - startaddr) + 1 >= ram_size

\* Machine.read_memory_word: 0xffff when no memory answers
read_memory_word(z, addr) ==
    IF ~get_memory_for_addr(addr) THEN 65535
    ELSE PyOr(ram_read_byte(z.ram, addr - startaddr),
              Shl(ram_read_byte(z.ram, (addr - startaddr) + 1), 8))

\* Machine.write_memory_byte: ignored when no memory answers
write_memory_byte(z, addr, value) ==
    IF ~Ok(z) THEN z
    ELSE IF ~get_memory_for_addr(addr) THEN z
    ELSE IF value < 0 \/ value > 255 THEN Raise(z, "ValueError")
    ELSE [z EXCEPT !.ram = ram_store(@, addr - startaddr, value)]

\* Machine.write_memory_word: the low byte is stored before the high byte
write_memory_word(z, addr, value) ==
    IF ~Ok(z) THEN z
    ELSE IF ~get_memory_for_addr(addr) THEN z
    ELSE IF value < 0 \/ value > 65535 THEN Raise(z, "ValueError")
    ELSE IF (addr - startaddr) + 1 >= ram_size
    THEN Raise([z EXCEPT !.ram = ram_store(@, addr - startaddr, Low(value, 8))],
               "IndexError")
    ELSE [z EXCEPT !.ram = ram_store(ram_store(@, addr - startaddr, Low(value, 8)),
                                     (addr - startaddr) + 1, Shr(value, 8))]

(***************************************************************************)
(* Emulator.run: the locals of the call in progress.                       *)
(***************************************************************************)
\* no Emulator.run call is in progress
NotRunning == [num_cycles |-> None, stop_at |-> None]

(***************************************************************************)
(* The CPU object.                                                         *)
(***************************************************************************)
\* CPU.reset: what the call assigns
ResetFields ==
    [pc |-> 0, sp |-> 0,
     a |-> 0, b |-> 0, c |-> 0, d |-> 0, e |-> 0, h |-> 0, l |-> 0,
     ax |-> 0, fx |-> 0, bx |-> 0, cx |-> 0, dx |-> 0, ex |-> 0, hx |-> 0, lx |-> 0,
     ix |-> 0, iy |-> 0, i |-> 0, r |-> 0,
     iff1 |-> FALSE, iff2 |-> FALSE, interrupt_mode |-> 0,
     interrupt_instructions |-> <<>>,
     sign |-> FALSE, zero |-> FALSE, half_carry |-> FALSE,
     parity_overflow |-> FALSE, add_subtract |-> FALSE, carry |-> FALSE]

\* a reset that forgets the interrupt state (what C7 must tell apart)
reset_registers_only(c) ==
    [f \in DOMAIN c |->
        IF f \in DOMAIN ResetFields \ {"iff1", "iff2", "interrupt_mode", "interrupt_instructions"}
        THEN ResetFields[f] ELSE c[f]]

\* CPU.reset on an object: the attributes it does not assign keep their value
reset(c) == [f \in DOMAIN c |-> IF f \in DOMAIN ResetFields THEN ResetFields[f] ELSE c[f]]

\* CPU.__init__: reset(), then the execution attributes.  The attribute
\* _parity does not exist until an instruction assigns it (has_parity).
NewCPU ==
    reset(ResetFields) @@
    [cycles |-> 0, instruction_prefix |-> None, current_inst |-> 0, displacement |-> 0,
     has_parity |-> FALSE, parity |-> FALSE]

\* the context a call runs in, and the object it leaves
Ctx(c, m) == c @@ [ram |-> m, exc |-> "none", ret |-> 0]
CpuOf(z) == [f \in DOMAIN NewCPU |-> z[f]]

\* the register-pair properties
get_bc(z) == PyOr(Shl(z.b, 8), z.c)
get_de(z) == PyOr(Shl(z.d, 8), z.e)
get_hl(z) == PyOr(Shl(z.h, 8), z.l)

\* CPU.get_f
get_f(z) ==
    LET f7 == IF z.sign THEN set_bit(0, 7) ELSE 0
        f6 == IF z.zero THEN set_bit(f7, 6) ELSE f7
        f4 == IF z.half_carry THEN set_bit(f6, 4) ELSE f6
        f2 == IF z.parity_overflow THEN set_bit(f4, 2) ELSE f4
        f1 == IF z.add_subtract THEN set_bit(f2, 1) ELSE f2
        f0 == IF z.carry THEN set_bit(f1, 0) ELSE f1
    IN f0

get_af(z) == PyOr(Shl(z.a, 8), get_f(z))

\* _validate_byte_value / _validate_word_value
validate_byte_value(value) == value >= 0 /\ value <= 255
validate_word_value(value) == value >= 0 /\ value <= 65535

\* CPU.set_f
set_f(z, value) ==
    IF ~Ok(z) THEN z
    ELSE IF ~validate_byte_value(value) THEN Raise(z, "AssertionError")
    ELSE [z EXCEPT !.sign = is_bit_set(value, 7), !.zero = is_bit_set(value, 6),
                   !.half_carry = is_bit_set(value, 4),
                   !.parity_overflow = is_bit_set(value, 2),
                   !.add_subtract = is_bit_set(value, 1), !.carry = is_bit_set(value, 0)]

set_bc(z, value) ==
    IF ~Ok(z) THEN z
    ELSE IF ~validate_word_value(value) THEN Raise(z, "AssertionError")
    ELSE [z EXCEPT !.b = Shr(value, 8), !.c = Low(value, 8)]

set_de(z, value) ==
    IF ~Ok(z) THEN z
    ELSE IF ~validate_word_value(value) THEN Raise(z, "AssertionError")
    ELSE [z EXCEPT !.d = Shr(value, 8), !.e = Low(value, 8)]

set_hl(z, value) ==
    IF ~Ok(z) THEN z
    ELSE IF ~validate_word_value(value) THEN Raise(z, "AssertionError")
    ELSE [z EXCEPT !.h = Shr(value, 8), !.l = Low(value, 8)]

set_sp(z, value) ==
    IF ~Ok(z) THEN z
    ELSE IF ~validate_word_value(value) THEN Raise(z, "AssertionError")
    ELSE [z EXCEPT !.sp = value]

\* CPU.set_af: _a is assigned before the f setter runs
set_af(z, value) ==
    IF ~Ok(z) THEN z
    ELSE IF ~validate_word_value(value) THEN Raise(z, "AssertionError")
    ELSE set_f([z EXCEPT !.a = Shr(value, 8)], Low(value, 8))

get_bcx(z) == PyOr(Shl(z.bx, 8), z.cx)
get_dex(z) == PyOr(Shl(z.dx, 8), z.ex)
get_hlx(z) == PyOr(Shl(z.hx, 8), z.lx)
get_afx(z) == PyOr(Shl(z.ax, 8), z.fx)

set_bcx(z, value) ==
    IF ~Ok(z) THEN z
    ELSE IF ~validate_word_value(value) THEN Raise(z, "AssertionError")
    ELSE [z EXCEPT !.bx = Shr(value, 8), !.cx = Low(value, 8)]

set_dex(z, value) ==
    IF ~Ok(z) THEN z
    ELSE IF ~validate_word_value(value) THEN Raise(z, "AssertionError")
    ELSE [z EXCEPT !.dx = Shr(value, 8), !.ex = Low(value, 8)]

set_hlx(z, value) ==
    IF ~Ok(z) THEN z
    ELSE IF ~validate_word_value(value) THEN Raise(z, "AssertionError")
    ELSE [z EXCEPT !.hx = Shr(value, 8), !.lx = Low(value, 8)]

\* an AF' that keeps only the six flag bits, as AF does
set_afx_masked(z, value) ==
    IF ~Ok(z) THEN z
    ELSE IF ~validate_word_value(value) THEN Raise(z, "AssertionError")
    ELSE [z EXCEPT !.ax = Shr(value, 8), !.fx = PyAnd(Low(value, 8), 215)]

set_afx(z, value) ==
    IF ~Ok(z) THEN z
    ELSE IF ~validate_word_value(value) THEN Raise(z, "AssertionError")
    ELSE [z EXCEPT !.ax = Shr(value, 8), !.fx = Low(value, 8)]

\* CPU._get_register
get_register(z, reg_idx) ==
    CASE reg_idx = 0 -> z.b
      [] reg_idx = 1 -> z.c
      [] reg_idx = 2 -> z.d
      [] reg_idx = 3 -> z.e
      [] reg_idx = 4 -> z.h
      [] reg_idx = 5 -> z.l
      [] reg_idx = 6 -> read_memory_byte(z, get_hl(z))
      [] reg_idx = 7 -> z.a

\* CPU._set_register
set_register(z, reg_idx, value) ==
    IF ~Ok(z) THEN z
    ELSE IF ~(value >= 0 /\ value <= 255) THEN Raise(z, "AssertionError")
    ELSE CASE reg_idx = 0 -> [z EXCEPT !.b = value]
           [] reg_idx = 1 -> [z EXCEPT !.c = value]
           [] reg_idx = 2 -> [z EXCEPT !.d = value]
           [] reg_idx = 3 -> [z EXCEPT !.e = value]
           [] reg_idx = 4 -> [z EXCEPT !.h = value]
           [] reg_idx = 5 -> [z EXCEPT !.l = value]
           [] reg_idx = 6 -> write_memory_byte(z, get_hl(z), value)
           [] reg_idx = 7 -> [z EXCEPT !.a = value]

\* CPU._set_register_pair
set_register_pair(z, reg_pair, value) ==
    CASE reg_pair = 0 -> set_bc(z, value)
      [] reg_pair = 1 -> set_de(z, value)
      [] reg_pair = 2 -> set_hl(z, value)
      [] reg_pair = 3 -> set_sp(z, value)

\* CPU._get_register_pair
get_register_pair(z, reg_pair) ==
    CASE reg_pair = 0 -> get_bc(z)
      [] reg_pair = 1 -> get_de(z)
      [] reg_pair = 2 -> get_hl(z)
      [] reg_pair = 3 -> z.sp

\* CPU._get_index_reg
get_index_reg(z) ==
    LET prefix == IF z.instruction_prefix < 256 THEN z.instruction_prefix
                  ELSE Shr(z.instruction_prefix, 8)
    IN IF prefix = 221 THEN z.ix ELSE z.iy

(***************************************************************************)
(* Fetching and the stack.                                                 *)
(***************************************************************************)
\* CPU._fetch_next_byte: from the interrupt queue or from memory at PC
fetch_next_byte(z) ==
    IF ~Ok(z) THEN z
    ELSE IF z.iff1 /\ z.interrupt_instructions # <<>>
    THEN [z EXCEPT !.ret = Head(z.interrupt_instructions),
                   !.interrupt_instructions = Tail(@)]
    ELSE [z EXCEPT !.ret = read_memory_byte(z, z.pc), !.pc = @ + 1]

\* CPU._fetch_next_word
fetch_next_word(z) ==
    IF ~Ok(z) THEN z
    ELSE IF z.iff1 /\ z.interrupt_instructions # <<>>
    THEN IF Len(z.interrupt_instructions) < 2 THEN Raise(z, "InvalidInstruction")
         ELSE [z EXCEPT !.ret = PyOr(z.interrupt_instructions[1],
                                     Shl(z.interrupt_instructions[2], 8)),
                        !.interrupt_instructions = Tail(Tail(@))]
    ELSE IF read_word_raises(z.pc) THEN Raise(z, "IndexError")
    ELSE [z EXCEPT !.ret = read_memory_word(z, z.pc), !.pc = @ + 2]

\* CPU._fetch_displacement: always from memory at PC
fetch_displacement(z) ==
    IF ~Ok(z) THEN z
    ELSE LET data == read_memory_byte(z, z.pc)
         IN [z EXCEPT !.pc = @ + 1,
                      !.ret = IF data >= 128 THEN data - 256 ELSE data]

\* CPU._push_to_stack
push_to_stack(z, value) ==
    IF ~Ok(z) THEN z
    ELSE write_memory_word([z EXCEPT !.sp = @ - 2], z.sp - 2, value)

\* CPU._pop_from_stack
pop_from_stack(z) ==
    IF ~Ok(z) THEN z
    ELSE IF read_word_raises(z.sp) THEN Raise(z, "IndexError")
    ELSE [z EXCEPT !.ret = read_memory_word(z, z.sp), !.sp = @ + 2]

(***************************************************************************)
(* Instruction handlers.  Each takes the context after step() fetched the  *)
(* opcode (current_inst, instruction_prefix) and returns the context the   *)
(* handler leaves.  The _log_* calls format a string and read memory; they *)
(* change nothing and are left out.                                        *)
(***************************************************************************)
\* the guard every statement after a call that may raise stands under
Do(z, znew) == IF Ok(z) THEN znew ELSE z

\* a cycle count that forgets the 4 T-states of the opcode fetch (what C6
\* must tell apart)
AddCyclesLess(z, n) == Do(z, [z EXCEPT !.cycles = @ + n - 4])

\* self._cycles += n
AddCycles(z, n) == Do(z, [z EXCEPT !.cycles = @ + n])

\* fields of the opcode: (inst & 0x38) >> 3, inst & 0x07, (inst & 0x30) >> 4
Field38(inst) == Low(Shr(inst, 3), 3)
Field07(inst) == Low(inst, 3)
Field30(inst) == Low(Shr(inst, 4), 2)

\* CPU control instructions
nop(z) == AddCycles(z, 4)

ei(z) == AddCycles(Do(z, [z EXCEPT !.iff1 = TRUE, !.iff2 = TRUE]), 4)

di(z) == AddCycles(Do(z, [z EXCEPT !.iff1 = FALSE, !.iff2 = FALSE]), 4)

im(z) ==
    LET mode == Low(Shr(z.current_inst, 3), 2)
    IN AddCycles(Do(z, [z EXCEPT !.interrupt_mode = IF mode # 0 THEN mode - 1 ELSE 0]), 8)

\* CPU._in: Machine.read_io takes (addr, extra_addr); the call passes one
io_in(z) == Raise(fetch_next_byte(z), "TypeError")

\* CPU._out: Machine.write_io takes (addr, extra_addr, value); the call passes two
io_out(z) == Raise(fetch_next_byte(z), "TypeError")

\* 8-bit data transfer instructions
\* a move that costs 4 T-states whatever its operands (what C31 must tell apart)
load_reg8_to_reg8_flat(z) ==
    AddCycles(set_register(z, Field38(z.current_inst),
                           get_register(z, Field07(z.current_inst))), 4)

\* CPU._load_reg8_to_reg8
load_reg8_to_reg8(z) ==
    LET dst == Field38(z.current_inst)
        src == Field07(z.current_inst)
        z1 == set_register(z, dst, get_register(z, src))
    IN AddCycles(z1, IF src = 6 \/ dst = 6 THEN 4 + 3 ELSE 4)

load_reg8_immediate(z) ==
    LET reg == Field38(z.current_inst)
        z1 == fetch_next_byte(z)
        z2 == set_register(z1, reg, z1.ret)
    IN AddCycles(z2, IF reg # 6 THEN 7 ELSE 10)

load_a_from_i_r_registers(z) ==
    AddCycles(Do(z, [z EXCEPT !.a = IF Bit(z.current_inst, 3) THEN z.r ELSE z.i]), 9)

load_i_r_register_from_a(z) ==
    AddCycles(Do(z, IF Bit(z.current_inst, 3) THEN [z EXCEPT !.r = z.a]
                    ELSE [z EXCEPT !.i = z.a]), 9)

store_a_to_mem(z) ==
    LET z1 == fetch_next_word(z)
    IN AddCycles(write_memory_byte(z1, z1.ret, z1.a), 13)

load_a_from_mem(z) ==
    LET z1 == fetch_next_word(z)
    IN AddCycles(Do(z1, [z1 EXCEPT !.a = read_memory_byte(z1, z1.ret)]), 13)

store_reg_to_indexed_mem(z) ==
    LET z1 == fetch_displacement(z)
        src == Field07(z.current_inst)
        addr == get_index_reg(z1) + z1.ret
    IN AddCycles(write_memory_byte(z1, addr, get_register(z1, src)), 19)

load_reg_from_indexed_mem(z) ==
    LET z1 == fetch_displacement(z)
        dst == Field38(z.current_inst)
        addr == get_index_reg(z1) + z1.ret
    IN AddCycles(set_register(z1, dst, read_memory_byte(z1, addr)), 19)

store_value_to_indexed_mem(z) ==
    LET z1 == fetch_displacement(z)
        z2 == fetch_next_byte(z1)
        addr == get_index_reg(z2) + z1.ret
    IN AddCycles(write_memory_byte(z2, addr, z2.ret), 19)

\* 16-bit data transfer instructions
ld_a_mem_regpair(z) ==
    LET addr == get_register_pair(z, Low(Shr(z.current_inst, 4), 1))
    IN AddCycles(Do(z, [z EXCEPT !.a = read_memory_byte(z, addr)]), 7)

ld_mem_regpair_a(z) ==
    LET addr == get_register_pair(z, Low(Shr(z.current_inst, 4), 1))
    IN AddCycles(write_memory_byte(z, addr, z.a), 7)

load_immediate_16b(z) ==
    LET reg_pair == Field30(z.current_inst)
        z1 == fetch_next_word(z)
        z2 == IF reg_pair = 3 THEN Do(z1, [z1 EXCEPT !.sp = z1.ret])
              ELSE set_register_pair(z1, reg_pair, z1.ret)
    IN AddCycles(z2, 10)

load_iy_immediate(z) ==
    LET z1 == fetch_next_word(z)
    IN AddCycles(Do(z1, [z1 EXCEPT !.iy = z1.ret]), 14)

store_hl_to_memory(z) ==
    LET z1 == fetch_next_word(z)
    IN AddCycles(write_memory_word(z1, z1.ret, get_hl(z1)), 16)

store_reg16_to_memory(z) ==
    LET reg_pair == Field30(z.current_inst)
        z1 == fetch_next_word(z)
    IN AddCycles(write_memory_word(z1, z1.ret, get_register_pair(z1, reg_pair)), 20)

load_hl_from_memory(z) ==
    LET z1 == fetch_next_word(z)
        z2 == IF Ok(z1) /\ read_word_raises(z1.ret) THEN Raise(z1, "IndexError")
              ELSE set_hl(z1, read_memory_word(z1, z1.ret))
    IN AddCycles(z2, 16)

load_reg16_from_memory(z) ==
    LET reg_pair == Field30(z.current_inst)
        z1 == fetch_next_word(z)
        z2 == IF Ok(z1) /\ read_word_raises(z1.ret) THEN Raise(z1, "IndexError")
              ELSE set_register_pair(z1, reg_pair, read_memory_word(z1, z1.ret))
    IN AddCycles(z2, 20)

ld_sp_hl(z) == AddCycles(Do(z, [z EXCEPT !.sp = get_hl(z)]), 6)

push(z) ==
    LET reg_pair == Field30(z.current_inst)
        value == IF reg_pair # 3 THEN get_register_pair(z, reg_pair) ELSE get_af(z)
    IN AddCycles(push_to_stack(z, value), 11)

pop(z) ==
    LET reg_pair == Field30(z.current_inst)
        z1 == pop_from_stack(z)
        z2 == IF reg_pair # 3 THEN set_register_pair(z1, reg_pair, z1.ret)
              ELSE set_af(z1, z1.ret)
    IN AddCycles(z2, 10)

\* Exchange instructions
exchange_de_hl(z) ==
    LET tmp == get_de(z)
        z1 == set_de(z, get_hl(z))
    IN AddCycles(set_hl(z1, tmp), 4)

exchange_hl_stack(z) ==
    LET value == get_hl(z)
        z1 == IF Ok(z) /\ read_word_raises(z.sp) THEN Raise(z, "IndexError")
              ELSE set_hl(z, read_memory_word(z, z.sp))
    IN AddCycles(write_memory_word(z1, z1.sp, value), 19)

exchange_af_afx(z) ==
    LET tmp == get_afx(z)
        z1 == set_afx(z, get_af(z))
    IN AddCycles(set_af(z1, tmp), 4)

exchange_register_set(z) ==
    LET z1 == set_bc(set_bcx(z, get_bc(z)), get_bcx(z))
        z2 == set_de(set_dex(z1, get_de(z1)), get_dex(z1))
        z3 == set_hl(set_hlx(z2, get_hl(z2)), get_hlx(z2))
    IN AddCycles(z3, 4)

\* Block transfer instructions
\* the part LDI, LDD, LDIR and LDDR share; dir is +1 or -1
block_move(z, dir) ==
    LET z1 == write_memory_byte(z, get_de(z), read_memory_byte(z, get_hl(z)))
        z2 == set_hl(z1, Low(get_hl(z1) + dir, 16))
        z3 == set_de(z2, Low(get_de(z2) + dir, 16))
        z4 == set_bc(z3, Low(get_bc(z3) - 1, 16))
    IN Do(z4, [z4 EXCEPT !.half_carry = FALSE, !.parity_overflow = get_bc(z4) # 0,
                         !.add_subtract = FALSE])

\* a tail that charges every iteration alike
block_repeat_flat(z) ==
    Do(z, IF get_bc(z) # 0 THEN [z EXCEPT !.pc = @ - 2, !.cycles = @ + 21]
          ELSE [z EXCEPT !.cycles = @ + 21])

\* the tail of LDIR and LDDR: rewind PC while BC is not 0
block_repeat(z) ==
    Do(z, IF get_bc(z) # 0 THEN [z EXCEPT !.pc = @ - 2, !.cycles = @ + 21]
          ELSE [z EXCEPT !.cycles = @ + 16])

ldd(z) == AddCycles(block_move(z, -1), 16)

lddr(z) == block_repeat(block_move(z, -1))

ldi(z) == AddCycles(block_move(z, 1), 16)

\* an LDIR that does not repeat
ldir_once(z) == AddCycles(block_move(z, 1), 16)

ldir(z) == block_repeat(block_move(z, 1))

\* Execution flow instructions
jp(z) ==
    LET z1 == fetch_next_word(z)
    IN AddCycles(Do(z1, [z1 EXCEPT !.pc = z1.ret]), 10)

jp_hl(z) == AddCycles(Do(z, [z EXCEPT !.pc = get_hl(z)]), 4)

jr(z) ==
    LET z1 == fetch_displacement(z)
    IN AddCycles(Do(z1, [z1 EXCEPT !.pc = @ + z1.ret]), 12)

jr_cond(z) ==
    LET z1 == fetch_displacement(z)
        condition_code == Low(Shr(z.current_inst, 3), 2)
        condition == CASE condition_code = 0 -> ~z1.zero
                       [] condition_code = 1 -> z1.zero
                       [] condition_code = 2 -> ~z1.carry
                       [] condition_code = 3 -> z1.carry
    IN Do(z1, IF condition THEN [z1 EXCEPT !.pc = @ + z1.ret, !.cycles = @ + 12]
              ELSE [z1 EXCEPT !.cycles = @ + 7])

djnz(z) ==
    LET z0 == Do(z, [z EXCEPT !.b = Low(z.b - 1, 8)])
        z1 == fetch_displacement(z0)
    IN Do(z1, IF z1.b # 0 THEN [z1 EXCEPT !.pc = @ + z1.ret, !.cycles = @ + 13]
              ELSE [z1 EXCEPT !.cycles = @ + 8])

call(z) ==
    LET z1 == fetch_next_word(z)
        z2 == push_to_stack(z1, z1.pc)
    IN AddCycles(Do(z2, [z2 EXCEPT !.pc = z1.ret]), 17)

ret(z) ==
    LET z1 == pop_from_stack(z)
    IN AddCycles(Do(z1, [z1 EXCEPT !.pc = z1.ret]), 10)

\* CPU._check_condition reads self._parity for PO and PE, an attribute
\* that only _inc_8bit_value and _dec_8bit_value create
check_condition_raises(z, op) == (op = 4 \/ op = 5) /\ ~z.has_parity

check_condition(z, op) ==
    CASE op = 0 -> ~z.zero
      [] op = 1 -> z.zero
      [] op = 2 -> ~z.carry
      [] op = 3 -> z.carry
      [] op = 4 -> ~z.parity
      [] op = 5 -> z.parity
      [] op = 6 -> ~z.sign
      [] op = 7 -> z.sign

jmp_cond(z) ==
    LET z1 == fetch_next_word(z)
        op == Field38(z.current_inst)
    IN IF Ok(z1) /\ check_condition_raises(z1, op) THEN Raise(z1, "AttributeError")
       ELSE AddCycles(Do(z1, IF check_condition(z1, op) THEN [z1 EXCEPT !.pc = z1.ret]
                             ELSE z1), 10)

call_cond(z) ==
    LET z1 == fetch_next_word(z)
        op == Field38(z.current_inst)
        z2 == push_to_stack(z1, z1.pc)
    IN IF Ok(z1) /\ check_condition_raises(z1, op) THEN Raise(z1, "AttributeError")
       ELSE IF Ok(z1) /\ check_condition(z1, op)
       THEN AddCycles(Do(z2, [z2 EXCEPT !.pc = z1.ret]), 17)
       ELSE AddCycles(z1, 10)

ret_cond(z) ==
    LET op == Field38(z.current_inst)
        z1 == pop_from_stack(z)
    IN IF Ok(z) /\ check_condition_raises(z, op) THEN Raise(z, "AttributeError")
       ELSE IF Ok(z) /\ check_condition(z, op)
       THEN AddCycles(Do(z1, [z1 EXCEPT !.pc = z1.ret]), 11)
       ELSE AddCycles(z, 5)

\* a restart that pushes the address after a two-byte instruction at PC
\* (what C39 must tell apart)
rst_past(z) ==
    LET z1 == push_to_stack(z, z.pc + 2)
    IN AddCycles(Do(z1, [z1 EXCEPT !.pc = PyAnd(z.current_inst, 56)]), 11)

\* CPU._rst
rst(z) ==
    LET rst_addr == PyAnd(z.current_inst, 56)
        z1 == push_to_stack(z, z.pc)
    IN AddCycles(Do(z1, [z1 EXCEPT !.pc = rst_addr]), 11)

\* ALU instructions
\* CPU._count_bits
\* a count that misses bit 7
count_bits_low7(n) ==
    LET bit(i) == (n \div Pow2(i)) % 2
    IN bit(0) + bit(1) + bit(2) + bit(3) + bit(4) + bit(5) + bit(6)

RECURSIVE count_bits(_)
count_bits(n) == IF n = 0 THEN 0 ELSE 1 + count_bits(PyAnd(n, n - 1))

\* CPU._alu_op: the flags and the accumulator after op on value
alu_op(z, op, value) ==
    LET a == z.a
        cy == IF z.carry THEN 1 ELSE 0
        neg_value == PyNot(value) + 1
        res == CASE op = 0 -> a + value
                 [] op = 1 -> a + value + cy
                 [] op = 2 \/ op = 7 -> a - value
                 [] op = 3 -> a - value - cy
                 [] op = 4 -> PyAnd(a, value)
                 [] op = 5 -> PyXor(a, value)
                 [] op = 6 -> PyOr(a, value)
        \* the second operand of the sum the overflow test looks at
        v == CASE op = 0 -> value
               [] op = 1 -> value + cy
               [] op = 2 \/ op = 7 -> neg_value
               [] op = 3 -> neg_value - cy
               [] OTHER -> 0
        arith == op < 4 \/ op = 7
        carry == IF op = 0 \/ op = 1 THEN res > 255
                 ELSE IF arith THEN res < 0
                 ELSE FALSE
        half_carry == CASE op = 0 -> (Low(a, 4) + Low(value, 4)) > 15
                        [] op = 1 -> (Low(a, 4) + Low(value, 4) + cy) > 15
                        [] op = 2 \/ op = 7 -> (Low(a, 4) + Low(neg_value, 4)) > 15
                        [] op = 3 -> (Low(a, 4) + Low(neg_value - cy, 4)) > 15
                        [] OTHER -> FALSE
        res8 == Low(res, 8)
        parity_overflow ==
            IF arith
            THEN PyXor(a, v) < 128 /\ PyXor(a, res) > 127 /\ a # 0 /\ v # 0
            ELSE count_bits(res8) % 2 = 0
    IN Do(z, [z EXCEPT !.a = IF op # 7 THEN res8 ELSE @,
                       !.carry = carry,
                       !.half_carry = half_carry,
                       !.add_subtract = (op = 2 \/ op = 3 \/ op = 7),
                       !.parity_overflow = parity_overflow,
                       !.zero = (res8 = 0),
                       !.sign = (PyAnd(res8, 128) # 0)])

\* an ALU A,r whose CP subtracts the carry as SBC does (what C35 must tell
\* apart)
alu_cp_borrows(z) ==
    LET op == Field38(z.current_inst)
        reg == Field07(z.current_inst)
        value == get_register(z, reg)
        done == IF op = 7 THEN [alu_op(z, 3, value) EXCEPT !.a = z.a]
                ELSE alu_op(z, op, value)
    IN AddCycles(done, IF reg # 6 THEN 4 ELSE 7)

\* CPU._alu
alu(z) ==
    LET op == Field38(z.current_inst)
        reg == Field07(z.current_inst)
    IN AddCycles(alu_op(z, op, get_register(z, reg)), IF reg # 6 THEN 4 ELSE 7)

alu_immediate(z) ==
    LET op == Field38(z.current_inst)
        z1 == fetch_next_byte(z)
    IN AddCycles(alu_op(z1, op, z1.ret), 7)

alu_mem_indexed(z) ==
    LET op == Field38(z.current_inst)
        z1 == fetch_displacement(z)
        addr == get_index_reg(z) + z1.ret
    IN AddCycles(alu_op(z1, op, read_memory_byte(z1, addr)), 19)

\* CPU._inc_8bit_value: the flags; the new value is left in ret
inc_8bit_value(z, value0) ==
    LET value == Low(value0 + 1, 8)
    IN Do(z, [z EXCEPT !.zero = (Low(value, 8) = 0),
                       !.has_parity = TRUE,
                       !.parity = (count_bits(value) % 2 = 0),
                       !.sign = (PyAnd(value, 128) # 0),
                       !.half_carry = (Low(value, 4) = 0),
                       !.add_subtract = FALSE,
                       !.parity_overflow = (value = 128),
                       !.ret = value])

\* CPU._dec_8bit_value
dec_8bit_value(z, value0) ==
    LET value == Low(value0 - 1, 8)
    IN Do(z, [z EXCEPT !.zero = (Low(value, 8) = 0),
                       !.has_parity = TRUE,
                       !.parity = (count_bits(value) % 2 = 0),
                       !.sign = (PyAnd(value, 128) # 0),
                       !.half_carry = (value = 15),
                       !.add_subtract = TRUE,
                       !.parity_overflow = (value = 127),
                       !.ret = value])

inc_reg8(z) ==
    LET reg == Field38(z.current_inst)
        z1 == inc_8bit_value(z, get_register(z, reg))
    IN AddCycles(set_register(z1, reg, z1.ret), IF reg = 6 THEN 11 ELSE 4)

dec_reg8(z) ==
    LET reg == Field38(z.current_inst)
        z1 == dec_8bit_value(z, get_register(z, reg))
    IN AddCycles(set_register(z1, reg, z1.ret), IF reg = 6 THEN 11 ELSE 4)

inc_mem_indexed(z) ==
    LET z1 == fetch_displacement(z)
        addr == get_index_reg(z1) + z1.ret
        z2 == inc_8bit_value(z1, read_memory_byte(z1, addr))
    IN AddCycles(write_memory_byte(z2, addr, z2.ret), 23)

dec_mem_indexed(z) ==
    LET z1 == fetch_displacement(z)
        addr == get_index_reg(z1) + z1.ret
        z2 == dec_8bit_value(z1, read_memory_byte(z1, addr))
    IN AddCycles(write_memory_byte(z2, addr, z2.ret), 23)

dec16(z) ==
    LET reg_pair == Field30(z.current_inst)
        value == get_register_pair(z, reg_pair)
    IN AddCycles(set_register_pair(z, reg_pair, Low(value - 1, 16)), 6)

inc16(z) ==
    LET reg_pair == Field30(z.current_inst)
        value == get_register_pair(z, reg_pair)
    IN AddCycles(set_register_pair(z, reg_pair, Low(value + 1, 16)), 6)

add_hl(z) ==
    LET value == get_register_pair(z, Field30(z.current_inst))
        hl == get_hl(z)
        res == hl + value
        z1 == Do(z, [z EXCEPT !.carry = (res >= 65536),
                              !.half_carry = (Low(hl, 12) + Low(value, 12)) >= 4096,
                              !.add_subtract = FALSE])
    IN AddCycles(set_hl(z1, Low(res, 16)), 11)

adc_hl(z) ==
    LET value == get_register_pair(z, Field30(z.current_inst))
        hl == get_hl(z)
        cy == IF z.carry THEN 1 ELSE 0
        res == hl + value + cy
        z1 == Do(z, [z EXCEPT !.sign = Bit(res, 15),
                              !.zero = (Low(res, 16) = 0),
                              !.parity_overflow = (PyXor(hl, value) < 32768
                                                   /\ PyXor(hl, res) > 32767
                                                   /\ hl # 0 /\ value # 0),
                              !.carry = (res >= 65536),
                              !.half_carry = (Low(hl, 12) + Low(value, 12) + cy) >= 4096,
                              !.add_subtract = FALSE])
    IN AddCycles(set_hl(z1, Low(res, 16)), 15)

sbc_hl(z) ==
    LET value == get_register_pair(z, Field30(z.current_inst))
        hl == get_hl(z)
        cy == IF z.carry THEN 1 ELSE 0
        res == hl - value - cy
        neg_value == Low(PyNot(value) + 1, 16)
        z1 == Do(z, [z EXCEPT !.sign = Bit(res, 15),
                              !.zero = (Low(res, 16) = 0),
                              !.parity_overflow = (PyXor(hl, neg_value) < 32768
                                                   /\ PyXor(hl, res) > 32767
                                                   /\ hl # 0 /\ neg_value # 0),
                              !.carry = (res >= 65536),
                              !.half_carry = (Low(hl, 12) + Low(neg_value, 12) + cy) >= 4096,
                              !.add_subtract = FALSE])
    IN AddCycles(set_hl(z1, Low(res, 16)), 15)

\* Rotate and shift instructions
rlca(z) ==
    AddCycles(Do(z, [z EXCEPT !.carry = is_bit_set(z.a, 7),
                              !.a = PyOr(Low(Shl(z.a, 1), 8), Shr(z.a, 7)),
                              !.half_carry = FALSE, !.add_subtract = FALSE]), 4)

rrca(z) ==
    AddCycles(Do(z, [z EXCEPT !.carry = is_bit_set(z.a, 0),
                              !.a = PyOr(Low(Shr(z.a, 1), 8), Low(Shl(z.a, 7), 8)),
                              !.half_carry = FALSE, !.add_subtract = FALSE]), 4)

rla(z) ==
    LET temp == z.a
        a1 == Low(Shl(z.a, 1), 8)
    IN AddCycles(Do(z, [z EXCEPT !.a = IF z.carry THEN set_bit(a1, 0) ELSE a1,
                                 !.carry = is_bit_set(temp, 7)]), 4)

rra(z) ==
    LET temp == z.a
        a1 == Shr(z.a, 1)
    IN AddCycles(Do(z, [z EXCEPT !.a = IF z.carry THEN set_bit(a1, 7) ELSE a1,
                                 !.carry = is_bit_set(temp, 0)]), 4)

\* Bit instructions
cpl(z) ==
    AddCycles(Do(z, [z EXCEPT !.a = Low(PyNot(z.a), 8),
                              !.half_carry = TRUE, !.add_subtract = TRUE]), 4)

scf(z) == AddCycles(Do(z, [z EXCEPT !.carry = TRUE]), 4)

ccf(z) == AddCycles(Do(z, [z EXCEPT !.half_carry = z.carry, !.carry = ~z.carry]), 4)

get_bit(z) ==
    LET bit == Field38(z.current_inst)
        reg == Field07(z.current_inst)
        value == get_register(z, reg)
    IN AddCycles(Do(z, [z EXCEPT !.zero = ~Bit(value, bit)]), IF reg = 6 THEN 12 ELSE 8)

get_bit_indexed(z) ==
    LET bit == Field38(z.current_inst)
        addr == get_index_reg(z) + z.displacement
        value == read_memory_byte(z, addr)
    IN AddCycles(Do(z, [z EXCEPT !.zero = ~Bit(value, bit)]), 20)

set_bit_reg(z) ==
    LET bit == Field38(z.current_inst)
        reg == Field07(z.current_inst)
        value == get_register(z, reg)
    IN AddCycles(set_register(z, reg, PyOr(value, Pow2(bit))), IF reg = 6 THEN 15 ELSE 8)

set_bit_indexed(z) ==
    LET bit == Field38(z.current_inst)
        addr == get_index_reg(z) + z.displacement
        value == read_memory_byte(z, addr)
    IN AddCycles(write_memory_byte(z, addr, PyOr(value, Pow2(bit))), 23)

\* value & ~mask
ClearBit(value, bit) == IF Bit(value, bit) THEN value - Pow2(bit) ELSE value

reset_bit(z) ==
    LET bit == Field38(z.current_inst)
        reg == Field07(z.current_inst)
        value == get_register(z, reg)
    IN AddCycles(set_register(z, reg, ClearBit(value, bit)), IF reg = 6 THEN 15 ELSE 8)

reset_bit_indexed(z) ==
    LET bit == Field38(z.current_inst)
        addr == get_index_reg(z) + z.displacement
        value == read_memory_byte(z, addr)
    IN AddCycles(write_memory_byte(z, addr, ClearBit(value, bit)), 23)

(***************************************************************************)
(* The instruction tables as the constructor leaves them: the handler in   *)
(* each slot, "None" for an empty slot.  Opcodes are written in decimal.   *)
(* _init_dd_instruction_table assigns None to _instructions_0xcb[0x30] and *)
(* _instructions_0xcb[0x40] (cpu.py lines 2741 and 2758), so the 0xcb      *)
(* table has no handler for 0x40.                                          *)
(***************************************************************************)
\* CPU._instructions
instructions(op) ==
    CASE op = 0 -> "nop"
      [] op \in {1, 17, 33, 49} -> "load_immediate_16b"
      [] op \in {2, 18} -> "ld_mem_regpair_a"
      [] op \in {3, 19, 35, 51} -> "inc16"
      [] op \in {4, 12, 20, 28, 36, 44, 52, 60} -> "inc_reg8"
      [] op \in {5, 13, 21, 29, 37, 45, 53, 61} -> "dec_reg8"
      [] op \in {6, 14, 22, 30, 38, 46, 54, 62} -> "load_reg8_immediate"
      [] op = 7 -> "rlca"
      [] op = 8 -> "exchange_af_afx"
      [] op \in {9, 25, 41, 57} -> "add_hl"
      [] op \in {10, 26} -> "ld_a_mem_regpair"
      [] op \in {11, 27, 43, 59} -> "dec16"
      [] op = 15 -> "rrca"
      [] op = 16 -> "djnz"
      [] op = 23 -> "rla"
      [] op = 24 -> "jr"
      [] op = 31 -> "rra"
      [] op \in {32, 40, 48, 56} -> "jr_cond"
      [] op = 34 -> "store_hl_to_memory"
      [] op = 42 -> "load_hl_from_memory"
      [] op = 47 -> "cpl"
      [] op = 50 -> "store_a_to_mem"
      [] op = 55 -> "scf"
      [] op = 58 -> "load_a_from_mem"
      [] op = 63 -> "ccf"
      [] op \in 64..117 \/ op \in 119..127 -> "load_reg8_to_reg8"
      [] op \in 128..191 -> "alu"
      [] op \in {192, 200, 208, 216, 224, 232, 240, 248} -> "ret_cond"
      [] op \in {193, 209, 225, 241} -> "pop"
      [] op \in {194, 202, 210, 218, 226, 234, 242, 250} -> "jmp_cond"
      [] op = 195 -> "jp"
      [] op \in {196, 204, 212, 220, 228, 236, 244, 252} -> "call_cond"
      [] op \in {197, 213, 229, 245} -> "push"
      [] op \in {198, 206, 214, 222, 230, 238, 246, 254} -> "alu_immediate"
      [] op \in {199, 207, 215, 223, 231, 239, 247, 255} -> "rst"
      [] op = 201 -> "ret"
      [] op = 205 -> "call"
      [] op = 211 -> "io_out"
      [] op = 217 -> "exchange_register_set"
      [] op = 219 -> "io_in"
      [] op = 227 -> "exchange_hl_stack"
      [] op = 233 -> "jp_hl"
      [] op = 235 -> "exchange_de_hl"
      [] op = 243 -> "di"
      [] op = 249 -> "ld_sp_hl"
      [] op = 251 -> "ei"
      [] OTHER -> "None"

\* CPU._instructions_0xed
instructions_0xed(op) ==
    CASE op \in {66, 82, 98, 114} -> "sbc_hl"
      [] op \in {67, 83, 99, 115} -> "store_reg16_to_memory"
      [] op \in {70, 86, 94} -> "im"
      [] op \in {71, 79} -> "load_i_r_register_from_a"
      [] op \in {74, 90, 106, 122} -> "adc_hl"
      [] op \in {75, 91, 107, 123} -> "load_reg16_from_memory"
      [] op \in {87, 95} -> "load_a_from_i_r_registers"
      [] op = 160 -> "ldi"
      [] op = 168 -> "ldd"
      [] op = 176 -> "ldir"
      [] op = 184 -> "lddr"
      [] OTHER -> "None"

\* CPU._instructions_0xcb
instructions_0xcb(op) ==
    CASE op \in 65..127 -> "get_bit"
      [] op \in 128..191 -> "reset_bit"
      [] op \in 192..255 -> "set_bit_reg"
      [] OTHER -> "None"

\* CPU._instructions_0xdd
instructions_0xdd(op) ==
    CASE op = 52 -> "inc_mem_indexed"
      [] op = 53 -> "dec_mem_indexed"
      [] op = 54 -> "store_value_to_indexed_mem"
      [] op \in {70, 78, 86, 94, 102, 110, 126} -> "load_reg_from_indexed_mem"
      [] op \in 112..117 \/ op = 119 -> "store_reg_to_indexed_mem"
      [] op \in {134, 142, 150, 158, 166, 174, 182, 190} -> "alu_mem_indexed"
      [] OTHER -> "None"

\* CPU._instructions_0xddcb
instructions_0xddcb(op) ==
    CASE op \in {70, 78, 86, 94, 102, 110, 118, 126} -> "get_bit_indexed"
      [] op \in {134, 142, 150, 158, 166, 174, 182, 190} -> "reset_bit_indexed"
      [] op \in {198, 206, 214, 222, 230, 238, 246, 254} -> "set_bit_indexed"
      [] OTHER -> "None"

\* CPU._instructions_0xfd
instructions_0xfd(op) ==
    CASE op = 33 -> "load_iy_immediate"
      [] op = 52 -> "inc_mem_indexed"
      [] op = 53 -> "dec_mem_indexed"
      [] op = 54 -> "store_value_to_indexed_mem"
      [] op \in {70, 78, 86, 94, 102, 110, 126} -> "load_reg_from_indexed_mem"
      [] op \in 112..117 \/ op = 119 -> "store_reg_to_indexed_mem"
      [] op \in {134, 142, 150, 158, 166, 174, 182, 190} -> "alu_mem_indexed"
      [] OTHER -> "None"

\* CPU._instructions_0xfdcb
instructions_0xfdcb(op) ==
    CASE op \in {70, 78, 86, 94, 102, 110, 118, 126} -> "get_bit_indexed"
      [] op \in {134, 142, 150, 158, 166, 174, 182, 190} -> "reset_bit_indexed"
      [] op \in {198, 206, 214, 222, 230, 238, 246, 254} -> "set_bit_indexed"
      [] OTHER -> "None"

\* calling the handler a slot holds
Call(handler, z) ==
    CASE handler = "nop" -> nop(z)
      [] handler = "load_immediate_16b" -> load_immediate_16b(z)
      [] handler = "ld_mem_regpair_a" -> ld_mem_regpair_a(z)
      [] handler = "inc16" -> inc16(z)
      [] handler = "inc_reg8" -> inc_reg8(z)
      [] handler = "dec_reg8" -> dec_reg8(z)
      [] handler = "load_reg8_immediate" -> load_reg8_immediate(z)
      [] handler = "rlca" -> rlca(z)
      [] handler = "exchange_af_afx" -> exchange_af_afx(z)
      [] handler = "add_hl" -> add_hl(z)
      [] handler = "ld_a_mem_regpair" -> ld_a_mem_regpair(z)
      [] handler = "dec16" -> dec16(z)
      [] handler = "rrca" -> rrca(z)
      [] handler = "djnz" -> djnz(z)
      [] handler = "rla" -> rla(z)
      [] handler = "jr" -> jr(z)
      [] handler = "rra" -> rra(z)
      [] handler = "jr_cond" -> jr_cond(z)
      [] handler = "store_hl_to_memory" -> store_hl_to_memory(z)
      [] handler = "load_hl_from_memory" -> load_hl_from_memory(z)
      [] handler = "cpl" -> cpl(z)
      [] handler = "store_a_to_mem" -> store_a_to_mem(z)
      [] handler = "scf" -> scf(z)
      [] handler = "load_a_from_mem" -> load_a_from_mem(z)
      [] handler = "ccf" -> ccf(z)
      [] handler = "load_reg8_to_reg8" -> load_reg8_to_reg8(z)
      [] handler = "alu" -> alu(z)
      [] handler = "ret_cond" -> ret_cond(z)
      [] handler = "pop" -> pop(z)
      [] handler = "jmp_cond" -> jmp_cond(z)
      [] handler = "jp" -> jp(z)
      [] handler = "call_cond" -> call_cond(z)
      [] handler = "push" -> push(z)
      [] handler = "alu_immediate" -> alu_immediate(z)
      [] handler = "rst" -> rst(z)
      [] handler = "ret" -> ret(z)
      [] handler = "call" -> call(z)
      [] handler = "io_out" -> io_out(z)
      [] handler = "exchange_register_set" -> exchange_register_set(z)
      [] handler = "io_in" -> io_in(z)
      [] handler = "exchange_hl_stack" -> exchange_hl_stack(z)
      [] handler = "jp_hl" -> jp_hl(z)
      [] handler = "exchange_de_hl" -> exchange_de_hl(z)
      [] handler = "di" -> di(z)
      [] handler = "ld_sp_hl" -> ld_sp_hl(z)
      [] handler = "ei" -> ei(z)
      [] handler = "sbc_hl" -> sbc_hl(z)
      [] handler = "store_reg16_to_memory" -> store_reg16_to_memory(z)
      [] handler = "im" -> im(z)
      [] handler = "load_i_r_register_from_a" -> load_i_r_register_from_a(z)
      [] handler = "adc_hl" -> adc_hl(z)
      [] handler = "load_reg16_from_memory" -> load_reg16_from_memory(z)
      [] handler = "load_a_from_i_r_registers" -> load_a_from_i_r_registers(z)
      [] handler = "ldi" -> ldi(z)
      [] handler = "ldd" -> ldd(z)
      [] handler = "ldir" -> ldir(z)
      [] handler = "lddr" -> lddr(z)
      [] handler = "get_bit" -> get_bit(z)
      [] handler = "reset_bit" -> reset_bit(z)
      [] handler = "set_bit_reg" -> set_bit_reg(z)
      [] handler = "inc_mem_indexed" -> inc_mem_indexed(z)
      [] handler = "dec_mem_indexed" -> dec_mem_indexed(z)
      [] handler = "store_value_to_indexed_mem" -> store_value_to_indexed_mem(z)
      [] handler = "load_reg_from_indexed_mem" -> load_reg_from_indexed_mem(z)
      [] handler = "store_reg_to_indexed_mem" -> store_reg_to_indexed_mem(z)
      [] handler = "alu_mem_indexed" -> alu_mem_indexed(z)
      [] handler = "get_bit_indexed" -> get_bit_indexed(z)
      [] handler = "reset_bit_indexed" -> reset_bit_indexed(z)
      [] handler = "set_bit_indexed" -> set_bit_indexed(z)
      [] handler = "load_iy_immediate" -> load_iy_immediate(z)

(***************************************************************************)
(* CPU.step and CPU.schedule_interrupt.                                    *)
(***************************************************************************)
\* CPU.step from its first _fetch_next_byte (which left z1) to the match
\* statement: the prefix bytes, the displacement and the opcode
parse_prefix(z1) ==
    LET b == z1.ret
        z2 == fetch_next_byte([z1 EXCEPT !.instruction_prefix = b])
        z3 == [z2 EXCEPT !.current_inst = z2.ret]
        z4 == fetch_displacement(
                  [z3 EXCEPT !.instruction_prefix = PyOr(Shl(@, 8), z3.current_inst)])
        z5 == fetch_next_byte([z4 EXCEPT !.displacement = z4.ret])
    IN IF b \in {237, 203, 221, 253}
       THEN IF z3.current_inst = 203 THEN [z5 EXCEPT !.current_inst = z5.ret] ELSE z3
       ELSE [z1 EXCEPT !.instruction_prefix = None, !.current_inst = b]

\* the fetch and prefix parsing of CPU.step: current_inst, instruction_prefix
\* and displacement as they stand when the table is consulted
decode(z) == parse_prefix(fetch_next_byte(z))

\* the table CPU.step's match statement selects
select(z) ==
    CASE z.instruction_prefix = 237 -> instructions_0xed(z.current_inst)
      [] z.instruction_prefix = 203 -> instructions_0xcb(z.current_inst)
      [] z.instruction_prefix = 221 -> instructions_0xdd(z.current_inst)
      [] z.instruction_prefix = 56779 -> instructions_0xddcb(z.current_inst)
      [] z.instruction_prefix = 253 -> instructions_0xfd(z.current_inst)
      [] z.instruction_prefix = 64971 -> instructions_0xfdcb(z.current_inst)
      [] OTHER -> instructions(z.current_inst)

\* a step that charges the opcode fetch before it finds the slot empty
step_charged(z) ==
    LET zd == decode(z)
        instruction == select(zd)
    IN IF instruction # "None" THEN Call(instruction, zd)
       ELSE Raise(AddCycles(zd, 4), "InvalidInstruction")

\* CPU.step
step(z) ==
    LET zd == decode(z)
        instruction == select(zd)
    IN IF instruction # "None" THEN Call(instruction, zd)
       ELSE Raise(zd, "InvalidInstruction")

\* a schedule_interrupt that does not look at IFF1 (what C4 must tell apart)
schedule_interrupt_unchecked(z, instructions_) ==
    LET vector_addr == PyOr(Shl(z.i, 8), PyAnd(instructions_[1], 254))
        handler_addr == read_memory_word(z, vector_addr)
    IN CASE z.interrupt_mode = 0 -> [z EXCEPT !.interrupt_instructions = instructions_]
         [] z.interrupt_mode = 1 -> [z EXCEPT !.interrupt_instructions = <<255>>]
         [] z.interrupt_mode = 2 ->
               [z EXCEPT !.interrupt_instructions =
                   <<205, PyAnd(handler_addr, 255), Shr(handler_addr, 8)>>]
         [] OTHER -> Raise(z, "InvalidInstruction")

\* CPU.schedule_interrupt
schedule_interrupt(z, instructions_) ==
    LET vector_addr == PyOr(Shl(z.i, 8), PyAnd(instructions_[1], 254))
        handler_addr == read_memory_word(z, vector_addr)
    IN IF ~z.iff1 THEN z
       ELSE CASE z.interrupt_mode = 0 -> [z EXCEPT !.interrupt_instructions = instructions_]
              [] z.interrupt_mode = 1 -> [z EXCEPT !.interrupt_instructions = <<255>>]
              [] z.interrupt_mode = 2 ->
                    IF read_word_raises(vector_addr) THEN Raise(z, "IndexError")
                    ELSE [z EXCEPT !.interrupt_instructions =
                             <<205, PyAnd(handler_addr, 255), Shr(handler_addr, 8)>>]
              [] OTHER -> Raise(z, "InvalidInstruction")

\* the bus reads one schedule_interrupt call makes
schedule_interrupt_reads(z, instructions_) ==
    IF z.iff1 /\ z.interrupt_mode = 2
    THEN <<PyOr(Shl(z.i, 8), PyAnd(instructions_[1], 254))>>
    ELSE <<>>

\* CPU.step when the memory device that answers the read of the first byte
\* calls schedule_interrupt(instructions_) before it returns the byte: the
\* call happens inside read_memory_byte, before _fetch_next_byte adds to PC
step_in_callback(z, instructions_) ==
    LET zi == schedule_interrupt(z, instructions_)
        zd == parse_prefix([zi EXCEPT !.ret = read_memory_byte(z, z.pc), !.pc = @ + 1])
        instruction == select(zd)
    IN IF ~Ok(zi) THEN zi
       ELSE IF instruction # "None" THEN Call(instruction, zd)
       ELSE Raise(zd, "InvalidInstruction")

(***************************************************************************)
(* The memory images the runs start from: a program at address 0 and a few *)
(* one-byte routines (RET at 0x10, 0x18, 0x38 and 0xBEEF, HALT at 0x40).   *)
(* 0x76 (HALT) has no handler, so it ends a run with InvalidInstruction.   *)
(***************************************************************************)
\* the RAM cells after writing bytes from base on (zero cells are not stored)
Load(base, bytes) ==
    [o \in {base + k - 1 : k \in {j \in 1..Len(bytes) : bytes[j] # 0}} |-> bytes[o - base + 1]]

Handlers ==
    Load(16, <<201>>) @@ Load(24, <<201>>) @@ Load(56, <<201>>) @@ Load(64, <<118>>) @@
    Load(48879, <<201>>)

Prog(main) == Load(0, main) @@ Handlers

\* every opcode of every table once, run from the reset state: the opcode, then
\* HALT bytes that serve as its operands and end the run
OpPrograms ==
    { Load(0, pfx \o <<op, 118, 118, 118>>) :
        pfx \in {<<>>, <<237>>, <<203>>, <<221>>, <<253>>, <<221, 203, 1>>, <<253, 203, 1>>},
        op \in 0..255 }

\* LD A,x then an ALU instruction with an immediate operand
AluPrefixes ==
    { <<62, 127, 198, 1>>,      \* LD A,7F ; ADD A,01
      <<62, 127, 230, 3>>,      \* LD A,7F ; AND 03
      <<62, 15, 214, 16>>,      \* LD A,0F ; SUB 10
      <<62, 127, 238, 127>> }   \* LD A,7F ; XOR 7F

\* [INC B ;] LD A,x ; ALU n ; JP cc,0040 ; HALT for each condition code
JpCondPrograms ==
    { Prog(pre \o op \o <<194 + 8 * cc, 64, 0, 118>>) :
        pre \in {<<>>, <<4>>}, op \in AluPrefixes, cc \in 0..7 }

Programs ==
    { \* im1
      Prog(<<49, 52, 18, 237, 86, 251, 0, 118>>),
      \* im1_sp0
      Prog(<<237, 86, 251, 0, 118>>),
      \* im2
      Load(48862, <<239, 190>>) @@ Prog(<<49, 52, 18, 62, 190, 237, 71, 237, 94, 251, 0, 118>>),
      \* im2_sp0
      Load(48862, <<239, 190>>) @@ Prog(<<62, 190, 237, 71, 237, 94, 251, 0, 118>>),
      \* im0
      Prog(<<49, 52, 18, 251, 0, 243, 0, 118>>),
      \* im0_sp0
      Prog(<<251, 0, 118>>),
      \* pc_top
      Load(65535, <<0>>) @@ Prog(<<195, 255, 255>>),
      \* pc_top_sp
      Load(65535, <<0>>) @@ Prog(<<49, 0, 128, 195, 255, 255>>),
      \* jr_back
      Prog(<<24, 252>>),
      \* jr_fwd
      Load(65520, <<24, 127>>) @@ Prog(<<195, 240, 255>>),
      \* call_top
      Load(65533, <<205, 16, 0>>) @@ Prog(<<49, 0, 128, 195, 253, 255>>),
      \* push_bc_pop_de_sp0
      Prog(<<1, 205, 171, 197, 209, 118>>),
      \* push_bc_pop_de_sp1
      Prog(<<49, 1, 0, 1, 205, 171, 197, 209, 118>>),
      \* push_bc_pop_de_sp2
      Prog(<<49, 2, 0, 1, 205, 171, 197, 209, 118>>),
      \* push_bc_pop_de_sp1234
      Prog(<<49, 52, 18, 1, 205, 171, 197, 209, 118>>),
      \* push_bc_pop_de_spffff
      Prog(<<49, 255, 255, 1, 205, 171, 197, 209, 118>>),
      \* push_af
      Prog(<<49, 52, 18, 62, 154, 198, 188, 245, 193, 197, 241, 118>>),
      \* push_hl_pop_af
      Prog(<<49, 52, 18, 33, 255, 255, 229, 241, 245, 209, 118>>),
      \* push_de_pop_hl
      Prog(<<49, 52, 18, 17, 33, 67, 213, 225, 118>>),
      \* pop_top
      Prog(<<49, 254, 255, 193, 193, 118>>),
      \* pop_ffff
      Prog(<<49, 255, 255, 193, 118>>),
      \* call_ret
      Prog(<<49, 52, 18, 205, 16, 0, 118>>),
      \* call_ret_sp0
      Prog(<<205, 16, 0, 118>>),
      \* call_ret_sp1
      Prog(<<49, 1, 0, 205, 16, 0, 118>>),
      \* t_ld8
      Prog(<<33, 0, 144, 54, 90, 126, 71, 52, 53, 112, 118>>),
      \* t_ldmem
      Prog(<<62, 66, 50, 0, 144, 58, 0, 144, 1, 0, 144, 10, 2, 118>>),
      \* t_ld16
      Prog(<<33, 52, 18, 34, 0, 144, 42, 0, 144, 249, 118>>),
      \* t_ed16
      Prog(<<1, 52, 18, 237, 67, 0, 144, 237, 91, 0, 144, 118>>),
      \* t_ex
      Prog(<<33, 52, 18, 235, 217, 8, 49, 0, 144, 227, 118>>),
      \* t_block_i
      Load(256, <<66, 67>>) @@ Prog(<<33, 0, 1, 17, 0, 144, 1, 2, 0, 237, 160, 237, 176, 118>>),
      \* t_block_d
      Load(256, <<66, 67>>) @@ Prog(<<33, 1, 1, 17, 1, 144, 1, 2, 0, 237, 168, 237, 184, 118>>),
      \* t_jumps
      Prog(<<33, 8, 0, 233, 118, 118, 118, 118, 24, 1, 118, 40, 1, 32, 1, 118, 6, 2, 16, 254, 118>>),
      \* t_callcc
      Prog(<<49, 0, 144, 204, 16, 0, 196, 16, 0, 200, 192, 118>>),
      \* t_rst
      Prog(<<49, 0, 144, 223, 118>>),
      \* t_alu
      Prog(<<6, 154, 62, 188, 128, 136, 152, 184, 166, 118>>),
      \* t_incdec
      Prog(<<60, 61, 3, 11, 51, 59, 118>>),
      \* t_add16
      Prog(<<33, 255, 143, 1, 1, 112, 9, 237, 74, 237, 66, 57, 118>>),
      \* t_rot
      Prog(<<62, 129, 7, 15, 23, 31, 47, 55, 63, 118>>),
      \* t_bit
      Prog(<<6, 129, 203, 120, 203, 200, 203, 128, 203, 64, 118>>),
      \* t_bit_hl
      Prog(<<33, 0, 144, 203, 198, 203, 70, 203, 134, 118>>),
      \* t_ix
      Prog(<<253, 33, 5, 144, 253, 54, 251, 66, 253, 102, 251, 253, 116, 1, 118>>),
      \* t_ix2
      Prog(<<253, 33, 5, 144, 253, 52, 0, 253, 53, 0, 253, 134, 0, 118>>),
      \* t_ixbit
      Prog(<<253, 33, 5, 144, 253, 203, 1, 198, 253, 203, 1, 70, 253, 203, 1, 134, 118>>),
      \* t_dd
      Prog(<<221, 54, 2, 66, 221, 126, 2, 221, 203, 2, 254, 221, 33, 118>>),
      \* t_io
      Prog(<<62, 1, 211, 254>>),
      \* t_io_in
      Prog(<<219, 254>>),
      \* t_ir
      Prog(<<62, 85, 237, 71, 237, 79, 62, 0, 237, 87, 237, 95, 118>>),
      \* t_cbcb
      Prog(<<203, 203, 0, 0, 237, 203, 1, 60, 118>>),
      \* t_di_queue
      Prog(<<49, 0, 144, 251, 0, 0, 118>>) }
    \cup JpCondPrograms \cup OpPrograms

\* what the bus hands to schedule_interrupt
Payloads ==
    { <<223>>,              \* RST 18, or vector DF
      <<205, 239, 190>>,    \* CALL BEEF
      <<243, 0>> }          \* DI ; NOP

(***************************************************************************)
(* The state machine: the calls a driver makes on the CPU.                 *)
(***************************************************************************)
Init ==
    /\ cpu = NewCPU
    /\ ram \in Programs
    /\ raised = "none"
    /\ last = [op |-> "init", data |-> <<>>]
    /\ last2 = [op |-> "init", data |-> <<>>]
    /\ prev = [cpu |-> NewCPU, ram |-> ram, reads |-> <<>>]
    /\ entry = [cpu |-> NewCPU, ram |-> ram]
    /\ nsched = 0
    /\ nreset = 0
    /\ machine = NewMachine
    /\ running = NotRunning

\* what every call leaves in the bookkeeping variables
Called(op, data, reads) ==
    /\ last' = [op |-> op, data |-> data]
    /\ last2' = last
    /\ prev' = [cpu |-> cpu, ram |-> ram, reads |-> reads]
    /\ UNCHANGED <<entry, machine, running>>

\* cpu.step() while the cycle counter is below limit; an exception ends the
\* run (Emulator.run does not catch it)
StepWithin(limit) ==
    /\ raised = "none"
    /\ cpu.cycles < limit
    /\ LET z == step(Ctx(cpu, ram))
       IN /\ cpu' = CpuOf(z)
          /\ ram' = z.ram
          /\ raised' = z.exc
    /\ Called("step", <<>>, <<>>)
    /\ UNCHANGED <<nsched, nreset>>

Step == StepWithin(MaxCycles)

\* cpu.schedule_interrupt(data)
ScheduleInterrupt ==
    /\ raised = "none"
    /\ nsched < MaxSched
    /\ \E data \in Payloads :
          LET z == schedule_interrupt(Ctx(cpu, ram), data)
          IN /\ cpu' = CpuOf(z)
             /\ ram' = z.ram
             /\ raised' = z.exc
             /\ Called("schedule_interrupt", data, schedule_interrupt_reads(Ctx(cpu, ram), data))
    /\ nsched' = nsched + 1
    /\ UNCHANGED nreset

\* machine.reset(): only the CPU is reset, memory survives
Reset ==
    /\ nreset < MaxReset
    /\ cpu' = reset(cpu)
    /\ raised' = "none"
    /\ Called("reset", <<>>, <<>>)
    /\ nreset' = nreset + 1
    /\ UNCHANGED <<ram, nsched>>

Next == Step \/ ScheduleInterrupt \/ Reset

Spec == Init /\ [][Next]_vars

(***************************************************************************)
(* Vocabulary of the properties.                                           *)
(***************************************************************************)
\* the byte and the little-endian word a Z80 sees at an address (64K wrap)
mem_byte(m, addr) == ram_read_byte(m, addr % 65536)
mem_word(m, addr) == mem_byte(m, addr) + 256 * mem_byte(m, addr + 1)

RegFields ==
    {"a", "b", "c", "d", "e", "h", "l", "ax", "fx", "bx", "cx", "dx", "ex", "hx", "lx",
     "ix", "iy", "i", "r"}
FlagFields == {"sign", "zero", "half_carry", "parity_overflow", "add_subtract", "carry"}
IntFields == {"iff1", "iff2", "interrupt_mode"}

\* the first byte the last step() fetched
FirstByte(c) ==
    IF c.instruction_prefix = None THEN c.current_inst
    ELSE IF c.instruction_prefix >= 256 THEN Shr(c.instruction_prefix, 8)
    ELSE c.instruction_prefix

\* the last call was a step() that came right after a schedule_interrupt()
\* made with interrupts enabled
IntAccepted == last.op = "step" /\ last2.op = "schedule_interrupt" /\ prev.cpu.iff1

\* the step pushed the PC it started with and went to target, nothing else
Accepted(target) ==
    /\ raised = "none"
    /\ cpu.pc = target
    /\ cpu.sp = (prev.cpu.sp - 2) % 65536
    /\ mem_word(ram, cpu.sp) = prev.cpu.pc
    /\ \A f \in RegFields \cup FlagFields \cup IntFields : cpu[f] = prev.cpu[f]

\* the stack and the PC the step started with are inside the address space
StackInRange == prev.cpu.sp \in 2..65535 /\ prev.cpu.pc \in 0..65535

(***************************************************************************)
(* C1                                                                      *)
(***************************************************************************)
\* C1: with IM=1 and IFF1 set, schedule_interrupt(data) then step() is an
\* RST 38h taken at the fetch boundary: the instruction in memory at PC is not
\* executed, the word at the new SP (old SP - 2, modulo 2^16) is the PC held
\* before the step, and PC = 0x0038.
C1_Mode1IsRst38 ==
    (IntAccepted /\ prev.cpu.interrupt_mode = 1) => Accepted(56)

\* C1 where the stack does not cross address 0: there the code does what
\* the claim says
C1_Mode1IsRst38_InRange ==
    (IntAccepted /\ prev.cpu.interrupt_mode = 1 /\ StackInRange) => Accepted(56)

C1_Witness ==
    /\ IntAccepted /\ prev.cpu.interrupt_mode = 1 /\ StackInRange
    /\ Len(last2.data) = 3
    /\ cpu.pc = 56 /\ cpu.sp = 4658

(***************************************************************************)
(* C2                                                                      *)
(***************************************************************************)
\* the handler address IM 2 takes from the vector table
VectorWord(v) == mem_word(prev.ram, prev.cpu.i * 256 + (v - (v % 2)))

Mode2 == IntAccepted /\ prev.cpu.interrupt_mode = 2 /\ Len(last2.data) = 1

\* C2: with IM=2 and IFF1 set, schedule_interrupt([v]) then step() jumps to
\* the word stored at (I << 8) | (v & 0xFE); SP has decreased by 2 (modulo
\* 2^16) and the word at the new SP is the PC held before the step.
C2_Mode2Vector ==
    Mode2 => Accepted(VectorWord(last2.data[1]))

\* C2 where the stack does not cross address 0
C2_Mode2Vector_InRange ==
    (Mode2 /\ StackInRange) => Accepted(VectorWord(last2.data[1]))

C2_Witness ==
    /\ Mode2 /\ StackInRange
    /\ last2.data = <<223>> /\ prev.cpu.i = 190
    /\ cpu.pc = 48879 /\ cpu.sp = 4658

(***************************************************************************)
(* C3                                                                      *)
(***************************************************************************)
\* a payload that is the complete encoding of RST p or of CALL nn
IsRst(data) == Len(data) = 1 /\ data[1] \in {199 + 8 * p : p \in 0..7}
IsCall(data) == Len(data) = 3 /\ data[1] = 205
InjectedTarget(data) == IF IsRst(data) THEN data[1] - 199 ELSE data[2] + 256 * data[3]

Mode0 ==
    /\ IntAccepted /\ prev.cpu.interrupt_mode = 0
    /\ IsRst(last2.data) \/ IsCall(last2.data)

\* the injected instruction was executed from the queue, and the queue is empty
Mode0Executed == Accepted(InjectedTarget(last2.data)) /\ cpu.interrupt_instructions = <<>>

\* the step() made in this transition took its first byte from memory at PC
FetchedAtPC == FirstByte(cpu') = mem_byte(ram, cpu.pc) /\ cpu'.interrupt_instructions = <<>>

\* C3: with IM=0 and IFF1 set, after schedule_interrupt(data) with data the
\* encoding of RST p or CALL nn, the next step() executes that instruction
\* from the queue (the pushed return address is the PC held before the step,
\* SP - 2 modulo 2^16), leaves the queue empty, and the step() after it
\* fetches from memory at PC again.
C3_Mode0FromQueue ==
    [][ /\ Mode0' => Mode0Executed'
        /\ (Mode0 /\ raised = "none" /\ last'.op = "step") => FetchedAtPC ]_vars

\* C3 where the stack does not cross address 0
C3_Mode0FromQueue_InRange ==
    [][ /\ (Mode0' /\ StackInRange') => Mode0Executed'
        /\ (Mode0 /\ StackInRange /\ last'.op = "step") => FetchedAtPC ]_vars

\* a CALL BEEF was injected and executed, and the RET at BEEF has run after it
C3_Witness ==
    /\ last.op = "step" /\ last2.op = "step" /\ FirstByte(cpu) = 201
    /\ prev.cpu.pc = 48879 /\ prev.cpu.sp = 4658 /\ prev.cpu.interrupt_mode = 0
    /\ prev.cpu.iff1 /\ cpu.sp = 4660 /\ raised = "none"

(***************************************************************************)
(* C4                                                                      *)
(***************************************************************************)
\* the last call was a schedule_interrupt() made with interrupts disabled
Dropped == last.op = "schedule_interrupt" /\ ~prev.cpu.iff1

\* the step() made in this transition did what a step() with an empty
\* interrupt queue does: every byte came from memory at PC
StepFromMemory ==
    LET z == step(Ctx([cpu EXCEPT !.interrupt_instructions = <<>>], ram))
    IN /\ cpu' = [CpuOf(z) EXCEPT !.interrupt_instructions = cpu.interrupt_instructions]
       /\ ram' = z.ram
       /\ raised' = z.exc

\* C4: with IFF1 false, schedule_interrupt(data) changes no register, no
\* flag, neither the queue nor the cycle counter, reads nothing from the bus,
\* and the next step() executes the instruction stored in memory at PC.
C4_DisabledIsNoOp ==
    [][ /\ Dropped' => (cpu' = cpu /\ ram' = ram /\ raised' = "none" /\ prev'.reads = <<>>)
        /\ (Dropped /\ last'.op = "step") => StepFromMemory ]_vars

\* a call dropped while bytes of an earlier payload were still queued,
\* and a step() made after it
C4_Witness ==
    /\ last.op = "step" /\ last2.op = "schedule_interrupt" /\ ~prev.cpu.iff1
    /\ prev.cpu.interrupt_instructions # <<>>
    /\ raised = "none"

(***************************************************************************)
(* C5                                                                      *)
(***************************************************************************)
ByteRegs ==
    {"a", "b", "c", "d", "e", "h", "l", "ax", "fx", "bx", "cx", "dx", "ex", "hx", "lx",
     "i", "r"}

\* C5: in every reachable state every 8-bit register is in [0,255] and PC,
\* SP, IX, IY are in [0,65535]: a fetch at PC=0xFFFF, a relative jump across
\* either end of the address space, a push with SP<2 and a pop with
\* SP>=0xFFFE wrap modulo 2^16.
C5_RegistersInRange ==
    /\ \A f \in ByteRegs : cpu[f] \in 0..255
    /\ \A f \in {"pc", "sp", "ix", "iy"} : cpu[f] \in 0..65535

\* C5 without PC and SP: the registers written through the validating
\* setters stay in range
C5_DataRegistersInRange ==
    /\ \A f \in ByteRegs : cpu[f] \in 0..255
    /\ \A f \in {"ix", "iy"} : cpu[f] \in 0..65535

\* an 8-bit register decremented from 0 wrapped to 255
C5_Witness ==
    /\ last.op = "step" /\ raised = "none"
    /\ prev.cpu.b = 0 /\ cpu.b = 255

(***************************************************************************)
(* C6                                                                      *)
(***************************************************************************)
\* C6: a step() that does not raise adds at least 4 T-states to the cycle
\* counter, and no call (step, schedule_interrupt, reset) decreases it.
C6_CyclesGrow ==
    /\ cpu.cycles >= prev.cpu.cycles
    /\ (last.op = "step" /\ raised = "none") => cpu.cycles >= prev.cpu.cycles + 4

\* a 4 T-state step() made after a reset and a schedule_interrupt
C6_Witness ==
    /\ last.op = "step" /\ raised = "none"
    /\ cpu.cycles = prev.cpu.cycles + 4 /\ prev.cpu.cycles > 0
    /\ nreset = 1 /\ nsched = 2

(***************************************************************************)
(* C7                                                                      *)
(***************************************************************************)
\* C7: after reset() all main and alternate registers, IX, IY, I, R, PC and
\* SP are 0, the six flags and IFF1/IFF2 are false, IM is 0, the interrupt
\* queue is empty, and the cycle counter is what it was before the reset.
C7_ResetState ==
    last.op = "reset" =>
        /\ \A f \in RegFields \cup {"pc", "sp", "interrupt_mode"} : cpu[f] = 0
        /\ \A f \in FlagFields \cup {"iff1", "iff2"} : cpu[f] = FALSE
        /\ cpu.interrupt_instructions = <<>>
        /\ cpu.cycles = prev.cpu.cycles
        /\ raised = "none"

\* a reset with interrupts enabled, a byte still queued and cycles counted
C7_Witness ==
    /\ last.op = "reset"
    /\ prev.cpu.iff1 /\ prev.cpu.interrupt_mode # 0
    /\ prev.cpu.interrupt_instructions # <<>>
    /\ prev.cpu.sp # 0 /\ prev.cpu.cycles > 0
    /\ cpu.cycles = prev.cpu.cycles

(***************************************************************************)
(* C8                                                                      *)
(***************************************************************************)
\* the step() that led to c took its bytes from memory, not from the queue
FromMemory(c) == c.interrupt_instructions = <<>> \/ ~c.iff1

\* the last step() of c executed the unprefixed opcode inst
Executed(c, inst) == c.instruction_prefix = None /\ c.current_inst = inst

\* F as a byte: S Z - H - P/V N C
FlagByte(c) ==
    (IF c.sign THEN 128 ELSE 0) + (IF c.zero THEN 64 ELSE 0) + (IF c.half_carry THEN 16 ELSE 0)
    + (IF c.parity_overflow THEN 4 ELSE 0) + (IF c.add_subtract THEN 2 ELSE 0)
    + (IF c.carry THEN 1 ELSE 0)

\* the pairs PUSH and POP name: 0 BC, 1 DE, 2 HL, 3 AF
Pair(c, k) ==
    CASE k = 0 -> 256 * c.b + c.c
      [] k = 1 -> 256 * c.d + c.e
      [] k = 2 -> 256 * c.h + c.l
      [] k = 3 -> 256 * c.a + FlagByte(c)

\* the last call was a step() that executed PUSH (pair k)
Pushed(k) == last.op = "step" /\ FromMemory(prev.cpu) /\ Executed(cpu, 197 + 16 * k)

\* PUSH took SP down by 2 and stored the pair low byte first
PushStored(k) ==
    /\ raised = "none"
    /\ cpu.sp = (prev.cpu.sp - 2) % 65536
    /\ mem_byte(ram, cpu.sp) = Pair(prev.cpu, k) % 256
    /\ mem_byte(ram, cpu.sp + 1) = Pair(prev.cpu, k) \div 256

\* whichever pair the last step() pushed, it was stored as PUSH should
PushDone ==
    /\ Pushed(0) => PushStored(0)
    /\ Pushed(1) => PushStored(1)
    /\ Pushed(2) => PushStored(2)
    /\ Pushed(3) => PushStored(3)

\* this transition is a step() that executes POP (pair j)
Pops(j) == last'.op = "step" /\ FromMemory(cpu) /\ Executed(cpu', 193 + 16 * j)

\* C8: for rp, rp' in {BC, DE, HL, AF} and every starting SP, PUSH rp
\* decrements SP by 2 (modulo 2^16) and stores the low byte at SP and the
\* high byte at SP+1, and a POP rp' that follows leaves rp' equal to the
\* pushed value and SP equal to its starting value.
C8_PushPopInverse ==
    [][ /\ PushDone'
        /\ \A k \in 0..3, j \in 0..3 :
              (Pushed(k) /\ Pops(j)) =>
                  /\ raised' = "none"
                  /\ Pair(cpu', j) = Pair(prev.cpu, k)
                  /\ cpu'.sp = prev.cpu.sp ]_vars

\* the low byte of v has only the bits F holds: S, Z, H, P/V, N, C
OnlyFlagBits(v) == ~Bit(v, 3) /\ ~Bit(v, 5)

\* C8 where the stack does not cross address 0 and, for POP AF, the pushed
\* low byte has only flag bits
C8_PushPopInverse_InRange ==
    [][ /\ StackInRange' => PushDone'
        /\ \A k \in 0..3, j \in 0..3 :
              (/\ Pushed(k) /\ StackInRange /\ Pops(j)
               /\ (j = 3 => OnlyFlagBits(Pair(prev.cpu, k)))) =>
                  /\ raised' = "none"
                  /\ Pair(cpu', j) = Pair(prev.cpu, k)
                  /\ cpu'.sp = prev.cpu.sp ]_vars

\* PUSH BC with SP = 0x1234 and BC = 0xABCD, then POP DE
C8_Witness ==
    /\ last.op = "step" /\ last2.op = "step"
    /\ Executed(cpu, 209) /\ Executed(prev.cpu, 197)
    /\ Pair(cpu, 1) = 43981 /\ cpu.sp = 4660 /\ mem_word(ram, 4658) = 43981

(***************************************************************************)
(* C9                                                                      *)
(***************************************************************************)
\* the last call was a step() that executed a CALL nn read from memory
Called_nn == last.op = "step" /\ FromMemory(prev.cpu) /\ Executed(cpu, 205)

\* CALL nn at a = prev.cpu.pc went to nn and pushed a + 3
CallDone ==
    /\ raised = "none"
    /\ cpu.pc = mem_word(prev.ram, prev.cpu.pc + 1)
    /\ cpu.sp = (prev.cpu.sp - 2) % 65536
    /\ mem_word(ram, cpu.sp) = (prev.cpu.pc + 3) % 65536
    /\ cpu.cycles = prev.cpu.cycles + 17

\* this transition is a step() that executes a RET read from memory
Returns == last'.op = "step" /\ FromMemory(cpu) /\ Executed(cpu', 201)

\* C9: CALL nn at address a sets PC=nn, decrements SP by 2 and stores a+3
\* at the new SP in 17 T-states; a RET executed next sets PC back to a+3 and
\* restores SP to its value before the CALL in 10 T-states.
C9_CallRet ==
    [][ /\ Called_nn' => CallDone'
        /\ (Called_nn /\ Returns) =>
              /\ raised' = "none"
              /\ cpu'.pc = (prev.cpu.pc + 3) % 65536
              /\ cpu'.sp = prev.cpu.sp
              /\ cpu'.cycles = cpu.cycles + 10 ]_vars

\* the CALL and its return address are inside the address space
CallInRange == StackInRange /\ prev.cpu.pc <= 65532

\* C9 where neither the stack nor the CALL crosses an end of the address space
C9_CallRet_InRange ==
    [][ /\ (Called_nn' /\ CallInRange') => CallDone'
        /\ (Called_nn /\ CallInRange /\ Returns) =>
              /\ raised' = "none"
              /\ cpu'.pc = (prev.cpu.pc + 3) % 65536
              /\ cpu'.sp = prev.cpu.sp
              /\ cpu'.cycles = cpu.cycles + 10 ]_vars

\* CALL 0010 at 0003 with SP = 0x1234, and the RET at 0010 has run
C9_Witness ==
    /\ last.op = "step" /\ last2.op = "step"
    /\ Executed(cpu, 201) /\ Executed(prev.cpu, 205)
    /\ prev.cpu.pc = 16 /\ prev.cpu.sp = 4658
    /\ cpu.pc = 6 /\ cpu.sp = 4660 /\ raised = "none"

(***************************************************************************)
(* C10                                                                     *)
(***************************************************************************)
\* condition code cc on the flags of c: NZ Z NC C PO PE P M
Holds(c, cc) ==
    CASE cc = 0 -> ~c.zero [] cc = 1 -> c.zero
      [] cc = 2 -> ~c.carry [] cc = 3 -> c.carry
      [] cc = 4 -> ~c.parity_overflow [] cc = 5 -> c.parity_overflow
      [] cc = 6 -> ~c.sign [] cc = 7 -> c.sign

\* the last call was a step() that executed JP cc,nn read from memory
Jumped(cc) == last.op = "step" /\ FromMemory(prev.cpu) /\ Executed(cpu, 194 + 8 * cc)

\* JP cc,nn at a = prev.cpu.pc went to nn iff cc held, in 10 T-states
JumpDone(cc) ==
    /\ raised = "none"
    /\ cpu.pc = IF Holds(prev.cpu, cc) THEN mem_word(prev.ram, prev.cpu.pc + 1)
                ELSE (prev.cpu.pc + 3) % 65536
    /\ cpu.cycles = prev.cpu.cycles + 10

\* C10: for each condition code cc and the flags left by any preceding
\* instruction, JP cc,nn at address a sets PC=nn iff cc holds (NZ/Z on Z,
\* NC/C on C, PO/PE on the P/V flag, P/M on S) and PC=a+3 otherwise, in 10
\* T-states either way.
C10_JpCond ==
    \A cc \in 0..7 : Jumped(cc) => JumpDone(cc)

\* C10 for the conditions on Z, C and S
C10_JpCond_ZCS ==
    \A cc \in {0, 1, 2, 3, 6, 7} : (Jumped(cc) /\ prev.cpu.pc \in 0..65532) => JumpDone(cc)

\* JP M taken on the sign left by an ADD that overflowed
C10_Witness ==
    /\ Jumped(7) /\ prev.cpu.sign /\ prev.cpu.parity_overflow
    /\ cpu.pc = 64 /\ prev.cpu.pc # 61 /\ raised = "none"

(***************************************************************************)
(* Block moves: a CPU whose HL, DE and BC were set through the property    *)
(* setters, with LDIR or LDDR (and a HALT after it) at address 0, stepped  *)
(* until the cycle counter reaches MaxBlockCycles.                         *)
(***************************************************************************)
\* step() is offered to a block move while the cycle counter is below this
MaxBlockCycles == 130

\* ED B0 (LDIR) and ED B8 (LDDR)
BlockOps == {176, 184}
BlockHLs == {16384, 16387, 65532}
BlockDEs == {20480, 20483, 16388, 16385, 65532}
BlockBCs == {1, 2, 3, 4, 0, 65535}

\* the memory holds bytes that tell their address at 3FFC..4007 and FFFC..FFFF
InitBlock ==
    /\ \E op \in BlockOps, hl \in BlockHLs, de \in BlockDEs, bc \in BlockBCs :
          /\ ram = Load(0, <<237, op, 118>>) @@
                   Load(16380, <<161, 162, 163, 164, 165, 166, 167, 168, 169, 170, 171, 172>>) @@
                   Load(65532, <<225, 226, 227, 228>>)
          /\ cpu = CpuOf(set_bc(set_de(set_hl(Ctx(NewCPU, ram), hl), de), bc))
    /\ raised = "none"
    /\ last = [op |-> "init", data |-> <<>>]
    /\ last2 = [op |-> "init", data |-> <<>>]
    /\ prev = [cpu |-> cpu, ram |-> ram, reads |-> <<>>]
    /\ entry = [cpu |-> cpu, ram |-> ram]
    /\ nsched = 0
    /\ nreset = 0
    /\ machine = NewMachine
    /\ running = NotRunning

SpecBlock == InitBlock /\ [][StepWithin(MaxBlockCycles)]_vars

(***************************************************************************)
(* C11                                                                     *)
(***************************************************************************)
\* the last call was a step() that executed the ED-prefixed opcode inst
\* read from memory
ExecutedED(inst) ==
    /\ last.op = "step" /\ FromMemory(prev.cpu)
    /\ cpu.instruction_prefix = 237 /\ cpu.current_inst = inst

\* every call since the run started was a step() of the instruction at the
\* entry PC, and the last of them moved PC past it
MovedPast(inst) == ExecutedED(inst) /\ cpu.pc = entry.cpu.pc + 2 /\ nsched = 0 /\ nreset = 0

\* the addresses of the window of n bytes from a
Window(a, n) == a..(a + n - 1)

\* the windows of the move asked for at entry lie inside the address space,
\* do not meet, and the destination does not hold the instruction
DisjointMove ==
    LET src == Pair(entry.cpu, 2)
        dst == Pair(entry.cpu, 1)
        n == Pair(entry.cpu, 0)
    IN /\ n >= 1 /\ src + n <= 65536 /\ dst + n <= 65536
       /\ Window(src, n) \cap Window(dst, n) = {}
       /\ Window(dst, n) \cap Window(entry.cpu.pc, 2) = {}

\* C11: with HL=src, DE=dst, BC=n (n >= 1, windows disjoint and not
\* wrapping), stepping LDIR until PC moves past it leaves mem[dst+i] equal to
\* the entry value of mem[src+i] for 0 <= i < n, HL=src+n, DE=dst+n (as 16-bit
\* registers), BC=0, P/V=0 and no byte outside [dst, dst+n) modified.
C11_LdirCopies ==
    (MovedPast(176) /\ DisjointMove) =>
        LET src == Pair(entry.cpu, 2)
            dst == Pair(entry.cpu, 1)
            n == Pair(entry.cpu, 0)
        IN /\ raised = "none"
           /\ \A i \in 0..(n - 1) : mem_byte(ram, dst + i) = mem_byte(entry.ram, src + i)
           /\ Pair(cpu, 2) = (src + n) % 65536
           /\ Pair(cpu, 1) = (dst + n) % 65536
           /\ Pair(cpu, 0) = 0
           /\ ~cpu.parity_overflow
           /\ \A a \in (DOMAIN ram \cup DOMAIN entry.ram) \ Window(dst, n) :
                 mem_byte(ram, a) = mem_byte(entry.ram, a)

\* four bytes copied from FFFC..FFFF to 5000..5003: HL has wrapped to 0
C11_Witness ==
    /\ MovedPast(176) /\ DisjointMove
    /\ Pair(entry.cpu, 2) = 65532 /\ Pair(entry.cpu, 1) = 20480 /\ Pair(entry.cpu, 0) = 4
    /\ Pair(cpu, 2) = 0 /\ mem_byte(ram, 20483) = 228

(***************************************************************************)
(* C12                                                                     *)
(***************************************************************************)
\* m with the byte value stored at addr
Poke(m, addr, value) == ram_store(m, addr, value)

\* one iteration of LDIR (dir = 1) or LDDR (dir = -1) was made by the last step()
Iterated(dir) ==
    LET hl == Pair(prev.cpu, 2)
        de == Pair(prev.cpu, 1)
        bc == (Pair(prev.cpu, 0) - 1) % 65536
    IN /\ raised = "none"
       /\ ram = Poke(prev.ram, de, mem_byte(prev.ram, hl))
       /\ Pair(cpu, 2) = (hl + dir) % 65536
       /\ Pair(cpu, 1) = (de + dir) % 65536
       /\ Pair(cpu, 0) = bc
       /\ bc # 0 => (cpu.cycles = prev.cpu.cycles + 21 /\ cpu.pc = prev.cpu.pc)
       /\ bc = 0 => (cpu.cycles = prev.cpu.cycles + 16 /\ cpu.pc = prev.cpu.pc + 2)

\* the steps the instruction takes for the BC it was entered with
BlockSteps == IF Pair(entry.cpu, 0) = 0 THEN 65536 ELSE Pair(entry.cpu, 0)

\* C12: each step() of LDIR or LDDR copies one byte from (HL) to (DE),
\* updates HL and DE and decrements BC; while BC is not 0 after that the step
\* costs 21 T-states and leaves PC at the ED prefix, the step that brings BC
\* to 0 costs 16 and leaves PC two bytes past it, so the instruction is done
\* after n steps (n = BC at entry, 65536 for 0) and 21*(n-1)+16 T-states.
C12_BlockIteration ==
    /\ ExecutedED(176) => Iterated(1)
    /\ ExecutedED(184) => Iterated(-1)
    /\ \A inst \in BlockOps :
          MovedPast(inst) =>
              cpu.cycles = entry.cpu.cycles + 21 * (BlockSteps - 1) + 16

\* the third and last iteration of an LDDR entered with BC = 3
C12_Witness ==
    /\ MovedPast(184) /\ Pair(entry.cpu, 0) = 3
    /\ cpu.cycles = 58 /\ Pair(cpu, 0) = 0
    /\ Pair(cpu, 2) = 16384 /\ mem_byte(ram, 20481) = 166

(***************************************************************************)
(* The register-pair properties: one of bc, de, hl, af, bcx, dex, hlx, afx *)
(* is assigned on a CPU as constructed and read back.                      *)
(***************************************************************************)
\* the pair properties: 0 bc, 1 de, 2 hl, 3 af, 4 bcx, 5 dex, 6 hlx, 7 afx
PairViews == 0..7

Words == 0..65535

\* cpu.<pair> = w
write_pair(z, k, w) ==
    CASE k = 0 -> set_bc(z, w) [] k = 1 -> set_de(z, w)
      [] k = 2 -> set_hl(z, w) [] k = 3 -> set_af(z, w)
      [] k = 4 -> set_bcx(z, w) [] k = 5 -> set_dex(z, w)
      [] k = 6 -> set_hlx(z, w) [] k = 7 -> set_afx(z, w)

\* cpu.<pair>
read_pair(z, k) ==
    CASE k = 0 -> get_bc(z) [] k = 1 -> get_de(z)
      [] k = 2 -> get_hl(z) [] k = 3 -> get_af(z)
      [] k = 4 -> get_bcx(z) [] k = 5 -> get_dex(z)
      [] k = 6 -> get_hlx(z) [] k = 7 -> get_afx(z)

InitPairs ==
    /\ cpu = NewCPU
    /\ ram = Load(0, <<118>>)
    /\ raised = "none"
    /\ last = [op |-> "init", data |-> <<>>]
    /\ last2 = [op |-> "init", data |-> <<>>]
    /\ prev = [cpu |-> cpu, ram |-> ram, reads |-> <<>>]
    /\ entry = [cpu |-> cpu, ram |-> ram]
    /\ nsched = 0
    /\ nreset = 0
    /\ machine = NewMachine
    /\ running = NotRunning

\* the first thing done with the CPU: a pair is assigned, then read
WritePair ==
    /\ last.op = "init"
    /\ \E k \in PairViews, w \in Words :
          LET z == write_pair(Ctx(cpu, ram), k, w)
          IN /\ cpu' = CpuOf(z)
             /\ ram' = z.ram
             /\ raised' = z.exc
             /\ Called("set_pair", <<k, w, read_pair(z, k)>>, <<>>)
    /\ UNCHANGED <<nsched, nreset>>

SpecPairs == InitPairs /\ [][WritePair]_vars

(***************************************************************************)
(* C14                                                                     *)
(***************************************************************************)
\* the register that holds the high byte of pair view k
HighReg(c, k) ==
    CASE k = 0 -> c.b [] k = 1 -> c.d [] k = 2 -> c.h [] k = 3 -> c.a
      [] k = 4 -> c.bx [] k = 5 -> c.dx [] k = 6 -> c.hx [] k = 7 -> c.ax

\* the register that holds the low byte of pair view k (F for AF)
LowReg(c, k) ==
    CASE k = 0 -> c.c [] k = 1 -> c.e [] k = 2 -> c.l [] k = 3 -> FlagByte(c)
      [] k = 4 -> c.cx [] k = 5 -> c.ex [] k = 6 -> c.lx [] k = 7 -> c.fx

\* byte b with bits 3 and 5 cleared
SixFlags(b) == b - 8 * ((b \div 8) % 2) - 32 * ((b \div 32) % 2)

\* the last call assigned last.data[2] to pair last.data[1] and read v back
\* into last.data[3]
PairWritten == last.op = "set_pair"

\* C14: for every pair view rp in {BC, DE, HL, AF, BC', DE', HL', AF'} and
\* every w in [0,65535], writing w through rp and reading rp back yields w,
\* with the high-byte register w >> 8 and the low-byte register w & 0xFF.
C14_PairRoundTrip ==
    PairWritten =>
        LET k == last.data[1]
            w == last.data[2]
        IN /\ raised = "none"
           /\ last.data[3] = w
           /\ HighReg(cpu, k) = w \div 256
           /\ LowReg(cpu, k) = w % 256

\* C14 with F as the code keeps it: for AF the low byte is read back with
\* bits 3 and 5 cleared; the seven other views are as the claim says.
C14_PairRoundTrip_SixFlags ==
    PairWritten =>
        LET k == last.data[1]
            w == last.data[2]
            low == IF k = 3 THEN SixFlags(w % 256) ELSE w % 256
        IN /\ raised = "none"
           /\ last.data[3] = 256 * (w \div 256) + low
           /\ HighReg(cpu, k) = w \div 256
           /\ LowReg(cpu, k) = low

\* AF = 0xFFFF was assigned and 0xFFD7 read back
C14_Witness ==
    /\ PairWritten /\ last.data = <<3, 65535, 65495>>
    /\ cpu.a = 255 /\ cpu.sign /\ cpu.carry /\ raised = "none"

(***************************************************************************)
(* Single instructions: a CPU whose registers and flags were set through   *)
(* the property setters, with the instruction under test at address 0 and  *)
(* HALT after it.                                                          *)
(***************************************************************************)
\* a CPU and a memory to start from
Setup(m, z) == [cpu |-> CpuOf(z), ram |-> m]

\* the values F can take
FlagBytes == {b \in 0..255 : b = b - 8 * ((b \div 8) % 2) - 32 * ((b \div 32) % 2)}

\* EX AF,AF' twice
ExAs == {0, 18, 255}
ExAFXs == {0, 8, 32, 4608, 13352, 48879, 65495, 65535}
ExSetups ==
    {Setup(Load(0, <<8, 8, 118>>),
           set_afx(set_af(Ctx(NewCPU, <<>>), 256 * a + f), afx)) :
        a \in ExAs, f \in FlagBytes, afx \in ExAFXs}

\* the accumulator operations: ADD ADC SUB SBC AND XOR OR CP on register B,
\* on A itself, on (HL), on an immediate byte and on (IX+5), (IY-5)
AluBytes == {0, 1, 2, 15, 16, 17, 40, 85, 126, 127, 128, 129, 170, 240, 254, 255}
AluFlags == {1, 214}
AluForms == {"r", "a", "hl", "n", "ix", "iy"}

\* the instruction and its operand in memory; cpu.ix, cpu.iy, cpu.hl, cpu.b,
\* cpu.a and cpu.f assigned
AluSetups ==
    LET mem(form, op, v) ==
            CASE form = "r" -> Load(0, <<128 + 8 * op, 118>>)
              [] form = "a" -> Load(0, <<135 + 8 * op, 118>>)
              [] form = "hl" -> Load(0, <<134 + 8 * op, 118>>) @@ Load(16416, <<v>>)
              [] form = "n" -> Load(0, <<198 + 8 * op, v, 118>>)
              [] form = "ix" -> Load(0, <<221, 134 + 8 * op, 5, 118>>) @@ Load(16389, <<v>>)
              [] form = "iy" -> Load(0, <<253, 134 + 8 * op, 251, 118>>) @@ Load(16395, <<v>>)
        regs(a, f, v) ==
            set_f(set_register(set_register(
                set_hl([Ctx(NewCPU, <<>>) EXCEPT !.ix = 16384, !.iy = 16400], 16416),
                0, v), 7, a), f)
    IN {Setup(mem(form, op, v), regs(a, f, v)) :
           form \in AluForms, op \in 0..7, a \in AluBytes, v \in AluBytes, f \in AluFlags}

\* INC and DEC of every byte x in B, C, D, E, H, L, A, (HL), (IX+5), (IY-5)
\* the targets: 0..7 as the opcode numbers them, 8 for (IX+5), 9 for (IY-5)
IncDecTargets == 0..9

\* the instruction and a memory target; cpu.ix, cpu.iy, cpu.hl, cpu.f and a
\* register target assigned
IncDecSetups ==
    LET mem(t, dec, x) ==
            CASE t \in 0..5 \cup {7} -> Load(0, <<4 + 8 * t + dec, 118>>)
              [] t = 6 -> Load(0, <<52 + dec, 118>>) @@ Load(16416, <<x>>)
              [] t = 8 -> Load(0, <<221, 52 + dec, 5, 118>>) @@ Load(16389, <<x>>)
              [] t = 9 -> Load(0, <<253, 52 + dec, 251, 118>>) @@ Load(16395, <<x>>)
        z(f) == set_f(set_hl([Ctx(NewCPU, <<>>) EXCEPT !.ix = 16384, !.iy = 16400], 16416), f)
        regs(t, f, x) == IF t \in 0..5 \cup {7} THEN set_register(z(f), t, x) ELSE z(f)
    IN {Setup(mem(t, dec, x), regs(t, f, x)) :
           t \in IncDecTargets, dec \in 0..1, x \in 0..255, f \in AluFlags}

\* ADC HL,rp (ED 4A 5A 6A 7A) and SBC HL,rp (ED 42 52 62 72), rp = BC DE HL SP
WideWords == {0, 1, 4095, 4096, 4660, 32767, 32768, 32769, 65534, 65535}
WideOps == {74 + 16 * rp : rp \in 0..3} \cup {66 + 16 * rp : rp \in 0..3}

\* cpu.bc, cpu.de, cpu.sp = v; cpu.hl = hl; cpu.f = f
WideSetups ==
    {Setup(Load(0, <<237, op, 118>>),
           set_f(set_hl(set_sp(set_de(set_bc(Ctx(NewCPU, <<>>), v), v), v), hl), f)) :
        op \in WideOps, hl \in WideWords, v \in WideWords, f \in AluFlags}

\* RLCA (07), RRCA (0F), RLA (17), RRA (1F) on every A
RotOps == {7, 15, 23, 31}
RotFlags == {0, 1, 18, 19, 196, 197, 214, 215}

RotSetups ==
    {Setup(Load(0, <<op, 118>>), set_f(set_register(Ctx(NewCPU, <<>>), 7, a), f)) :
        op \in RotOps, a \in 0..255, f \in RotFlags}

\* BIT b,r (CB 40..7F) on B, C, D, E, H, L, (HL), A
BitBytes == {0, 1, 85, 128, 170, 255}

\* the instruction at 0; the operand in its register or at (HL) = 0x4020
BitSetups ==
    LET mem(op, x) ==
            IF op % 8 = 6 THEN Load(0, <<203, op, 118>>) @@ Load(16416, <<x>>)
            ELSE Load(0, <<203, op, 118>>)
        z(f) == set_f(set_hl(Ctx(NewCPU, <<>>), 16416), f)
        regs(op, f, x) == IF op % 8 = 6 THEN z(f) ELSE set_register(z(f), op % 8, x)
    IN {Setup(mem(op, x), regs(op, f, x)) : op \in 64..127, x \in BitBytes, f \in AluFlags}

\* JR d, JR cc,d and DJNZ d in the middle and at either end of the address
\* space, with flags that differ in Z and C and in the other four
JrOps == {16, 24, 32, 40, 48, 56}
JrAddresses == {256, 0, 65534}
JrDisplacements == {5, 251, 0}
JrFlags == {0, 65, 214, 149}
JrCounts == {1, 2, 0}

JrSetups ==
    LET regs(a, f, b) == set_f(set_register([Ctx(NewCPU, <<>>) EXCEPT !.pc = a], 0, b), f)
    IN {Setup(Load(a, <<op, d>>), regs(a, f, b)) :
           op \in JrOps, a \in JrAddresses, d \in JrDisplacements, f \in JrFlags, b \in JrCounts}

\* CALL cc,0x4000 and RET cc at 0x0100 with SP = 0x8000 and 0x1234 on the
\* stack, entered directly or through an INC B (of 2) at 0x00FF
CondOps == {192 + 8 * cc : cc \in 0..7} \cup {196 + 8 * cc : cc \in 0..7}
CondFlags == {0, 215, 65, 132}

CondSetups ==
    LET mem(op) == Load(255, <<4, op, 0, 64>>) @@ Load(32768, <<52, 18>>)
        regs(a, f) ==
            set_f(set_register(set_sp([Ctx(NewCPU, <<>>) EXCEPT !.pc = a], 32768), 0, 2), f)
    IN {Setup(mem(op), regs(a, f)) : op \in CondOps, a \in {255, 256}, f \in CondFlags}

\* IM 0 with IFF1 set: payloads handed to schedule_interrupt, SP = 0x8000 and
\* 10 00 76 in memory at PC = 0
IntPayloads ==
    {<<205>>, <<205, 239>>, <<205, 239, 190>>, <<195, 16>>, <<62>>, <<62, 7>>,
     <<0>>, <<0, 60, 60>>, <<60, 60>>}

IntSetups ==
    LET mem == Load(0, <<16, 0, 118>>)
        z == set_sp([Ctx(NewCPU, mem) EXCEPT !.iff1 = TRUE], 32768)
    IN {Setup(mem, schedule_interrupt(z, data)) : data \in IntPayloads}

\* the run starts from one of the set-ups S
StartsFrom(S) == \E s \in S : cpu = s.cpu /\ ram = s.ram

InitOps ==
    /\ \/ StartsFrom(ExSetups)
       \/ StartsFrom(AluSetups)
       \/ StartsFrom(IncDecSetups)
       \/ StartsFrom(WideSetups)
       \/ StartsFrom(RotSetups)
       \/ StartsFrom(BitSetups)
       \/ StartsFrom(JrSetups)
       \/ StartsFrom(CondSetups)
       \/ StartsFrom(IntSetups)
    /\ raised = "none"
    /\ last = [op |-> "init", data |-> <<>>]
    /\ last2 = [op |-> "init", data |-> <<>>]
    /\ prev = [cpu |-> cpu, ram |-> ram, reads |-> <<>>]
    /\ entry = [cpu |-> cpu, ram |-> ram]
    /\ nsched = 0
    /\ nreset = 0
    /\ machine = NewMachine
    /\ running = NotRunning

SpecOps == InitOps /\ [][Step]_vars

(***************************************************************************)
(* C13                                                                     *)
(***************************************************************************)
\* the two calls made since the set-up were step()s that executed EX AF,AF'
ExchangedTwice ==
    /\ last.op = "step" /\ last2.op = "step"
    /\ Executed(cpu, 8) /\ Executed(prev.cpu, 8)
    /\ cpu.pc = entry.cpu.pc + 2

\* A, F, A' and F' are what they were at the set-up
AFRestored ==
    /\ raised = "none"
    /\ cpu.a = entry.cpu.a /\ FlagByte(cpu) = FlagByte(entry.cpu)
    /\ cpu.ax = entry.cpu.ax /\ cpu.fx = entry.cpu.fx

\* C13: EX AF,AF' is an involution: for every A, every value of the six
\* flags and every 16-bit value AF' can hold, executing it twice restores A,
\* F, A' and F'.
C13_ExTwice ==
    ExchangedTwice => AFRestored

\* C13 where F' was set up with bits 3 and 5 clear
C13_ExTwice_SixFlags ==
    (ExchangedTwice /\ entry.cpu.fx \in FlagBytes) => AFRestored

\* A = 0x12, F = 0xD7 and AF' = 0xFFD7, exchanged twice
C13_Witness ==
    /\ ExchangedTwice /\ AFRestored
    /\ cpu.a = 18 /\ FlagByte(cpu) = 215 /\ cpu.ax = 255 /\ cpu.fx = 215
    /\ cpu.cycles = entry.cpu.cycles + 8

(***************************************************************************)
(* C15                                                                     *)
(***************************************************************************)
\* byte b read as a signed two's-complement number
Signed(b) == IF b >= 128 THEN b - 256 ELSE b

\* c holds an accumulator operation: ALU A,r / ALU A,(HL), ALU A,n or
\* ALU A,(IX+d) / ALU A,(IY+d)
IsAlu(c) ==
    \/ c.instruction_prefix = None /\ c.current_inst \in 128..191
    \/ c.instruction_prefix = None /\ c.current_inst \in {198 + 8 * op : op \in 0..7}
    \/ c.instruction_prefix \in {221, 253} /\ c.current_inst \in {134 + 8 * op : op \in 0..7}

\* the last call was a step() that executed an accumulator operation
AluDone == last.op = "step" /\ FromMemory(prev.cpu) /\ IsAlu(cpu)

\* which of ADD ADC SUB SBC AND XOR OR CP it was
AluOp == (cpu.current_inst \div 8) % 8

\* the byte register r names before the step (6 is (HL))
Reg8(r) ==
    CASE r = 0 -> prev.cpu.b [] r = 1 -> prev.cpu.c [] r = 2 -> prev.cpu.d
      [] r = 3 -> prev.cpu.e [] r = 4 -> prev.cpu.h [] r = 5 -> prev.cpu.l
      [] r = 6 -> mem_byte(prev.ram, Pair(prev.cpu, 2)) [] r = 7 -> prev.cpu.a

\* the operand the instruction names, read before the step
AluOperand ==
    IF cpu.instruction_prefix = None /\ cpu.current_inst < 192
    THEN Reg8(cpu.current_inst % 8)
    ELSE IF cpu.instruction_prefix = None
    THEN mem_byte(prev.ram, prev.cpu.pc + 1)
    ELSE mem_byte(prev.ram,
                  (IF cpu.instruction_prefix = 221 THEN prev.cpu.ix ELSE prev.cpu.iy)
                  + Signed(mem_byte(prev.ram, prev.cpu.pc + 2)))

\* the carry that ADC and SBC take in
CarryIn == IF AluOp \in {1, 3} /\ prev.cpu.carry THEN 1 ELSE 0

\* result and flags of ADD/ADC but P/V
AddResult ==
    LET a == prev.cpu.a
        v == AluOperand
        sum == a + v + CarryIn
    IN /\ raised = "none"
       /\ cpu.a = sum % 256
       /\ cpu.carry = (sum > 255)
       /\ cpu.half_carry = ((a % 16) + (v % 16) + CarryIn > 15)
       /\ ~cpu.add_subtract
       /\ cpu.zero = (sum % 256 = 0)
       /\ cpu.sign = (sum % 256 >= 128)

\* P/V of ADD/ADC
AddOverflow ==
    cpu.parity_overflow =
        (Signed(prev.cpu.a) + Signed(AluOperand) + CarryIn \notin -128..127)

\* C15: for all a, v in 0..255 (and carry-in c for ADC), ADD/ADC A,v stores
\* (a+v+c) mod 256 in A and sets C iff a+v+c > 255, H iff
\* (a & 0x0F)+(v & 0x0F)+c > 0x0F, N=0, Z iff the result is 0, S to bit 7 of
\* the result, and P/V iff the signed sum lies outside [-128,127].
C15_AddAdc ==
    (AluDone /\ AluOp \in {0, 1}) => (AddResult /\ AddOverflow)

\* C15 without P/V
C15_AddAdc_ButPV ==
    (AluDone /\ AluOp \in {0, 1}) => AddResult

\* ADC A,(IX+5) of 0x7F + 0x80 + 1: result 0, carry and half carry
C15_Witness ==
    /\ AluDone /\ AluOp = 1 /\ cpu.instruction_prefix = 221
    /\ prev.cpu.a = 127 /\ AluOperand = 128 /\ CarryIn = 1
    /\ cpu.a = 0 /\ cpu.carry /\ cpu.half_carry /\ cpu.zero /\ ~cpu.sign

(***************************************************************************)
(* C16                                                                     *)
(***************************************************************************)
\* result and flags of SUB/SBC/CP but P/V
SubResult ==
    LET a == prev.cpu.a
        v == AluOperand
        r == (a - v - CarryIn) % 256
    IN /\ raised = "none"
       /\ cpu.a = IF AluOp = 7 THEN a ELSE r
       /\ cpu.carry = (a < v + CarryIn)
       /\ cpu.add_subtract
       /\ cpu.zero = (r = 0)
       /\ cpu.sign = (r >= 128)

\* P/V of SUB/SBC/CP
SubOverflow ==
    cpu.parity_overflow =
        (Signed(prev.cpu.a) - Signed(AluOperand) - CarryIn \notin -128..127)

\* C16: for all a, v in 0..255 (and carry-in c for SBC), SUB/SBC/CP compute
\* r = (a - v - c) mod 256 and set C iff a < v + c, N=1, Z iff r is 0, S to
\* bit 7 of r, and P/V iff the signed difference lies outside [-128,127].
C16_SubSbcCp ==
    (AluDone /\ AluOp \in {2, 3, 7}) => (SubResult /\ SubOverflow)

\* C16 without P/V
C16_SubSbcCp_ButPV ==
    (AluDone /\ AluOp \in {2, 3, 7}) => SubResult

\* SBC A,(HL) of 0x80 - 0x7F - 1: result 0, no borrow
C16_Witness ==
    /\ AluDone /\ AluOp = 3 /\ cpu.current_inst % 8 = 6
    /\ prev.cpu.a = 128 /\ AluOperand = 127 /\ CarryIn = 1
    /\ cpu.a = 0 /\ ~cpu.carry /\ cpu.add_subtract /\ cpu.zero /\ ~cpu.sign

(***************************************************************************)
(* C17                                                                     *)
(***************************************************************************)
\* bit i of x, as a number
BitOf(x, i) == (x \div Pow2(i)) % 2

\* the byte whose bit i is f[bit i of a, bit i of v]
Bitwise(f, a, v) ==
    LET bit(i) == f[BitOf(a, i)][BitOf(v, i)]
    IN bit(0) + 2 * bit(1) + 4 * bit(2) + 8 * bit(3)
       + 16 * bit(4) + 32 * bit(5) + 64 * bit(6) + 128 * bit(7)

\* truth tables, indexed by the two bits
AndBits == [x \in 0..1 |-> [y \in 0..1 |-> x * y]]
XorBits == [x \in 0..1 |-> [y \in 0..1 |-> (x + y) % 2]]
OrBits == [x \in 0..1 |-> [y \in 0..1 |-> x + y - x * y]]

\* the number of 1-bits of byte x
Ones(x) ==
    BitOf(x, 0) + BitOf(x, 1) + BitOf(x, 2) + BitOf(x, 3)
    + BitOf(x, 4) + BitOf(x, 5) + BitOf(x, 6) + BitOf(x, 7)

IsIncDec(c) ==
    \/ c.instruction_prefix = None /\ c.current_inst < 64 /\ c.current_inst % 8 \in {4, 5}
    \/ c.instruction_prefix \in {221, 253} /\ c.current_inst \in {52, 53}

\* the last call was a step() that executed an 8-bit INC or DEC
IncDecDone == last.op = "step" /\ FromMemory(prev.cpu) /\ IsIncDec(cpu)

\* it was a DEC
IsDec == cpu.current_inst % 2 = 1

\* the address of (IX+d) or (IY+d) for the instruction at prev.cpu.pc
IndexedAddr ==
    (IF cpu.instruction_prefix = 221 THEN prev.cpu.ix ELSE prev.cpu.iy)
    + Signed(mem_byte(prev.ram, prev.cpu.pc + 2))

\* the byte in the target of INC/DEC in CPU c with memory m
Target(c, m) ==
    LET r == cpu.current_inst \div 8
    IN IF cpu.instruction_prefix # None THEN mem_byte(m, IndexedAddr)
       ELSE CASE r = 0 -> c.b [] r = 1 -> c.c [] r = 2 -> c.d [] r = 3 -> c.e
              [] r = 4 -> c.h [] r = 5 -> c.l [] r = 7 -> c.a
              [] r = 6 -> mem_byte(m, Pair(prev.cpu, 2))

\* result and flags of INC/DEC but H
IncDecResult ==
    LET x == Target(prev.cpu, prev.ram)
        r == IF IsDec THEN (x - 1) % 256 ELSE (x + 1) % 256
    IN /\ raised = "none"
       /\ Target(cpu, ram) = r
       /\ cpu.carry = prev.cpu.carry
       /\ cpu.add_subtract = IsDec
       /\ cpu.parity_overflow = (x = IF IsDec THEN 128 ELSE 127)
       /\ cpu.zero = (r = 0)
       /\ cpu.sign = (r >= 128)

\* H of INC/DEC
IncDecHalfCarry ==
    cpu.half_carry = (Target(prev.cpu, prev.ram) % 16 = IF IsDec THEN 0 ELSE 15)

\* C18: for every 8-bit INC/DEC target (register, (HL), (IX+d), (IY+d)) and
\* every operand x, the result (x+1 or x-1) mod 256 is written back, C is
\* unchanged, N is 0 for INC and 1 for DEC, P/V is set iff x = 0x7F (INC) or
\* x = 0x80 (DEC), H is set iff x & 0x0F = 0x0F (INC) or x & 0x0F = 0x00
\* (DEC), and Z and S reflect the result.
C18_IncDec ==
    IncDecDone => (IncDecResult /\ IncDecHalfCarry)

\* C18 with H left out for DEC
C18_IncDec_ButDecH ==
    IncDecDone => (IncDecResult /\ (~IsDec => IncDecHalfCarry))

\* INC (IY-5) of 0x7F with carry set: 0x80 written back, P/V, H and S set
C18_Witness ==
    /\ IncDecDone /\ ~IsDec /\ cpu.instruction_prefix = 253
    /\ mem_byte(prev.ram, 16395) = 127 /\ mem_byte(ram, 16395) = 128
    /\ prev.cpu.carry /\ cpu.carry
    /\ cpu.parity_overflow /\ cpu.half_carry /\ cpu.sign /\ ~cpu.zero

(***************************************************************************)
(* C19                                                                     *)
(***************************************************************************)
\* the last call was a step() that executed ADC HL,rp or SBC HL,rp
WideDone ==
    /\ last.op = "step" /\ FromMemory(prev.cpu)
    /\ cpu.instruction_prefix = 237 /\ cpu.current_inst \in WideOps

\* it was SBC HL,rp
IsSbcHL == cpu.current_inst % 16 = 2

\* the operand pair before the step: BC, DE, HL or SP
WideOperand ==
    LET rp == (cpu.current_inst \div 16) % 4
    IN IF rp = 3 THEN prev.cpu.sp ELSE Pair(prev.cpu, rp)

\* word w read as a signed two's-complement number
Signed16(w) == IF w >= 32768 THEN w - 65536 ELSE w

\* the carry taken in, as a number
WideCarryIn == IF prev.cpu.carry THEN 1 ELSE 0

\* the 16-bit result the claim gives
WideValue ==
    IF IsSbcHL THEN (Pair(prev.cpu, 2) - WideOperand - WideCarryIn) % 65536
    ELSE (Pair(prev.cpu, 2) + WideOperand + WideCarryIn) % 65536

\* HL, S and Z after ADC HL,rp / SBC HL,rp
WideResult ==
    /\ raised = "none"
    /\ Pair(cpu, 2) = WideValue
    /\ cpu.sign = (WideValue >= 32768)
    /\ cpu.zero = (WideValue = 0)

\* N and C after ADC HL,rp / SBC HL,rp
WideCarry ==
    /\ cpu.add_subtract = IsSbcHL
    /\ cpu.carry = IF IsSbcHL THEN Pair(prev.cpu, 2) < WideOperand + WideCarryIn
                   ELSE Pair(prev.cpu, 2) + WideOperand + WideCarryIn > 65535

\* P/V after ADC HL,rp / SBC HL,rp
WideOverflow ==
    cpu.parity_overflow =
        ((IF IsSbcHL THEN Signed16(Pair(prev.cpu, 2)) - Signed16(WideOperand) - WideCarryIn
          ELSE Signed16(Pair(prev.cpu, 2)) + Signed16(WideOperand) + WideCarryIn)
         \notin -32768..32767)

\* C19: ADC HL,rp and SBC HL,rp store the 16-bit result modulo 2^16 in HL and
\* set S to bit 15 of the result, Z iff the result is 0, P/V on signed 16-bit
\* overflow, N=0 for ADC and N=1 for SBC, and C to the carry out of bit 15
\* for ADC and to the borrow (HL < rp + carry) for SBC.
C19_AdcSbcHL ==
    WideDone => (WideResult /\ WideCarry /\ WideOverflow)

\* C19 without P/V, and without N and C for SBC
C19_AdcSbcHL_Result ==
    WideDone => (WideResult /\ (~IsSbcHL => WideCarry))

\* ADC HL,SP of 0xFFFF + 0x0001 with carry: HL = 1, carry out, no overflow
C19_Witness ==
    /\ WideDone /\ cpu.current_inst = 122
    /\ Pair(prev.cpu, 2) = 65535 /\ prev.cpu.sp = 1 /\ prev.cpu.carry
    /\ Pair(cpu, 2) = 1 /\ cpu.carry /\ ~cpu.sign /\ ~cpu.zero /\ ~cpu.add_subtract

(***************************************************************************)
(* C20                                                                     *)
(***************************************************************************)
\* the last call was a step() that executed RLCA, RRCA, RLA or RRA
RotDone ==
    last.op = "step" /\ FromMemory(prev.cpu) /\ \E op \in RotOps : Executed(cpu, op)

\* it rotated left; it rotated through the carry
RotLeft == cpu.current_inst \in {7, 23}
RotThrough == cpu.current_inst \in {23, 31}

\* the bit rotated out of A, and the bit that takes the vacated place
RotOut == IF RotLeft THEN prev.cpu.a \div 128 ELSE prev.cpu.a % 2
RotIn == IF RotThrough THEN (IF prev.cpu.carry THEN 1 ELSE 0) ELSE RotOut

\* A and C after the rotation, and Z, S, P/V as they were
Rotated ==
    /\ raised = "none"
    /\ cpu.a = IF RotLeft THEN ((2 * prev.cpu.a) % 256) + RotIn
               ELSE (prev.cpu.a \div 2) + 128 * RotIn
    /\ cpu.carry = (RotOut = 1)
    /\ cpu.zero = prev.cpu.zero /\ cpu.sign = prev.cpu.sign
    /\ cpu.parity_overflow = prev.cpu.parity_overflow

\* C20: each of RLCA, RRCA, RLA and RRA leaves H=0 and N=0 whatever their
\* values before, sets C to the bit rotated out of A, and leaves Z, S and P/V
\* unchanged; RLA and RRA shift the previous carry into the vacated bit.
C20_Rotates ==
    RotDone => (Rotated /\ ~cpu.half_carry /\ ~cpu.add_subtract)

\* C20 with H and N left out for RLA and RRA
C20_Rotates_ButHN ==
    RotDone => (Rotated /\ (~RotThrough => (~cpu.half_carry /\ ~cpu.add_subtract)))

\* RRA of 0x01 with carry, Z, S and P/V set: A = 0x80, carry out
C20_Witness ==
    /\ RotDone /\ cpu.current_inst = 31
    /\ prev.cpu.a = 1 /\ prev.cpu.carry /\ prev.cpu.zero /\ prev.cpu.sign
    /\ cpu.a = 128 /\ cpu.carry /\ cpu.zero /\ cpu.sign /\ cpu.parity_overflow

(***************************************************************************)
(* C21                                                                     *)
(***************************************************************************)
\* the byte operand r names in CPU c with memory m (6 is (HL))
ByteAt(c, m, r) ==
    CASE r = 0 -> c.b [] r = 1 -> c.c [] r = 2 -> c.d [] r = 3 -> c.e
      [] r = 4 -> c.h [] r = 5 -> c.l [] r = 7 -> c.a
      [] r = 6 -> mem_byte(m, Pair(c, 2))

\* the last call was a step() that executed BIT b,r
BitDone ==
    /\ last.op = "step" /\ FromMemory(prev.cpu)
    /\ cpu.instruction_prefix = 203 /\ cpu.current_inst \in 64..127

\* Z, the operand, C and the cost of BIT b,r
BitTested ==
    LET b == (cpu.current_inst \div 8) % 8
        r == cpu.current_inst % 8
        x == ByteAt(prev.cpu, prev.ram, r)
    IN /\ raised = "none"
       /\ cpu.zero = ((x \div Pow2(b)) % 2 = 0)
       /\ ByteAt(cpu, ram, r) = x /\ ram = prev.ram
       /\ cpu.carry = prev.cpu.carry
       /\ cpu.cycles = prev.cpu.cycles + (IF r = 6 THEN 12 ELSE 8)

\* C21: for every bit b in 0..7 and every operand r in {B, C, D, E, H, L,
\* (HL), A}, BIT b,r sets Z iff bit b of the operand is 0, sets H=1 and N=0,
\* leaves the operand and C unchanged, and costs 8 T-states (12 for (HL)).
C21_Bit ==
    BitDone => (BitTested /\ cpu.half_carry /\ ~cpu.add_subtract)

\* what the code does: BIT 0,B (CB 40) finds its slot emptied and raises;
\* every other BIT b,r is as C21 says except that H and N are left alone
C21_Bit_ButHN ==
    BitDone =>
        IF cpu.current_inst = 64
        THEN /\ raised = "InvalidInstruction"
             /\ cpu.cycles = prev.cpu.cycles /\ cpu.zero = prev.cpu.zero
        ELSE /\ BitTested
             /\ cpu.half_carry = prev.cpu.half_carry
             /\ cpu.add_subtract = prev.cpu.add_subtract

\* BIT 7,(HL) on 0x80 with carry set: Z clear, 12 T-states
C21_Witness ==
    /\ BitDone /\ cpu.current_inst = 126
    /\ mem_byte(ram, 16416) = 128 /\ prev.cpu.carry
    /\ ~cpu.zero /\ cpu.carry /\ cpu.cycles = 12 /\ raised = "none"

(***************************************************************************)
(* Indexed addressing: one indexed instruction at 0, stepped from a CPU    *)
(* whose IX and IY were set through their properties.                      *)
(***************************************************************************)
\* indexed forms under DD and FD: the index register near the middle and at
\* either end of the address space, the displacement of either sign
IndexedOps ==
    {<<52>>, <<53>>, <<54>>, <<70>>, <<126>>, <<102>>, <<112>>, <<116>>, <<119>>}
    \cup {<<134 + 8 * op>> : op \in 0..7}
    \cup {<<203, 70 + 8 * b>> : b \in {0, 3, 7}}
    \cup {<<203, 134 + 8 * b>> : b \in {0, 3, 7}}
    \cup {<<203, 198 + 8 * b>> : b \in {0, 3, 7}}
IndexedBases == {16384, 65535, 8}
IndexedDisplacements == {9, 247}

\* prefix, opcode and displacement at 0 (the displacement before the opcode
\* on the DDCB/FDCB pages, an immediate 0x77 after it for LD (I+d),n); bytes
\* that tell their address at the places index + d can name
IndexedSetups ==
    LET code(p, o, d) ==
            IF Len(o) = 2 THEN <<p, 203, d, o[2], 118>>
            ELSE IF o[1] = 54 THEN <<p, 54, d, 119, 118>>
            ELSE <<p, o[1], d, 118>>
        mem(p, o, d) ==
            Load(0, code(p, o, d)) @@ Load(8, <<90>>) @@ Load(17, <<89>>)
            @@ Load(16375, <<195>>) @@ Load(16393, <<60>>)
            @@ Load(65526, <<166>>) @@ Load(65535, <<165>>)
        regs(i) ==
            set_f(set_register(set_register(set_register(set_register(
                [Ctx(NewCPU, <<>>) EXCEPT !.ix = i, !.iy = i],
                0, 177), 4, 97), 5, 113), 7, 15), 1)
    IN {Setup(mem(p, o, d), regs(i)) :
           p \in {221, 253}, o \in IndexedOps, i \in IndexedBases, d \in IndexedDisplacements}

InitIndexed ==
    /\ StartsFrom(IndexedSetups)
    /\ raised = "none"
    /\ last = [op |-> "init", data |-> <<>>]
    /\ last2 = [op |-> "init", data |-> <<>>]
    /\ prev = [cpu |-> cpu, ram |-> ram, reads |-> <<>>]
    /\ entry = [cpu |-> cpu, ram |-> ram]
    /\ nsched = 0
    /\ nreset = 0
    /\ machine = NewMachine
    /\ running = NotRunning

SpecIndexed == InitIndexed /\ [][Step]_vars

(***************************************************************************)
(* C22                                                                     *)
(***************************************************************************)
\* the last call was a step() that executed an indexed form read from memory
IndexedDone ==
    /\ last.op = "step" /\ FromMemory(prev.cpu)
    /\ cpu.instruction_prefix \in {221, 253, 56779, 64971}
    /\ select(Ctx(cpu, ram)) # "None"
    /\ ~(cpu.instruction_prefix = 253 /\ cpu.current_inst = 33)

\* the index register the prefix selects and the displacement (the third
\* byte of the instruction on every page), before the step
IndexBase == IF FirstByte(cpu) = 221 THEN prev.cpu.ix ELSE prev.cpu.iy
IndexDisplacement == Signed(mem_byte(prev.ram, prev.cpu.pc + 2))

\* x with bit b set (on = 1) or cleared (on = 0)
WithBit(x, b, on) == x - ((x \div Pow2(b)) % 2) * Pow2(b) + on * Pow2(b)

\* the accumulator after the operation op of ALU A,s on a, x and carry cy
AluValue(op, a, x, cy) ==
    CASE op = 0 -> (a + x) % 256
      [] op = 1 -> (a + x + cy) % 256
      [] op = 2 -> (a - x) % 256
      [] op = 3 -> (a - x - cy) % 256
      [] op = 4 -> NatAnd(a, x)
      [] op = 5 -> NatXor(a, x)
      [] op = 6 -> NatOr(a, x)
      [] op = 7 -> a

\* the step read its operand as x and left memory as Stored(v) for the byte v
\* it wrote, or as it was when it wrote nothing
IndexedEffect(x, Stored(_)) ==
    LET inst == cpu.current_inst
        r == (inst \div 8) % 8
        cy == IF prev.cpu.carry THEN 1 ELSE 0
    IN /\ raised = "none"
       /\ IF cpu.instruction_prefix >= 256
          THEN CASE inst < 128 -> cpu.zero = ((x \div Pow2(r)) % 2 = 0) /\ ram = prev.ram
                 [] inst \in 128..191 -> ram = Stored(WithBit(x, r, 0))
                 [] inst >= 192 -> ram = Stored(WithBit(x, r, 1))
          ELSE CASE inst = 52 -> ram = Stored((x + 1) % 256)
                 [] inst = 53 -> ram = Stored((x - 1) % 256)
                 [] inst = 54 -> ram = Stored(mem_byte(prev.ram, prev.cpu.pc + 3))
                 [] inst \in 64..111 \/ inst = 126 ->
                        ByteAt(cpu, ram, r) = x /\ ram = prev.ram
                 [] inst \in 112..119 -> ram = Stored(ByteAt(prev.cpu, prev.ram, inst % 8))
                 [] inst >= 128 ->
                        /\ cpu.a = AluValue(r, prev.cpu.a, x, cy)
                        /\ r = 7 => cpu.zero = (prev.cpu.a = x)
                        /\ ram = prev.ram

\* the step accessed the byte at addr
IndexedAt(addr) ==
    LET Stored(v) == Poke(prev.ram, addr % 65536, v)
    IN IndexedEffect(mem_byte(prev.ram, addr), Stored)

\* C22: for every indexed form (LD r,(IX+d), LD (IX+d),r, LD (IX+d),n,
\* INC/DEC (IX+d), ALU A,(IX+d), BIT/SET/RES b,(IX+d), and the IY forms) the
\* address accessed is (index + d) mod 2^16, d read as two's complement, the
\* index being IX under DD and IY under FD.
C22_Indexed ==
    IndexedDone => IndexedAt((IndexBase + IndexDisplacement) % 65536)

\* what the code does: the sum is not reduced; inside 0..65535 it is the
\* address accessed, outside the read gives 0xFF and the write is dropped
C22_Indexed_Unreduced ==
    IndexedDone =>
        LET sum == IndexBase + IndexDisplacement
            Kept(v) == prev.ram
        IN IF sum \in 0..65535 THEN IndexedAt(sum) ELSE IndexedEffect(255, Kept)

\* LD (IY-9),H with IY = 0x4000 stored H at 0x3FF7
C22_Witness ==
    /\ IndexedDone /\ cpu.instruction_prefix = 253 /\ cpu.current_inst = 116
    /\ prev.cpu.iy = 16384 /\ IndexDisplacement = -9
    /\ mem_byte(prev.ram, 16375) = 195 /\ mem_byte(ram, 16375) = 97

(***************************************************************************)
(* C23                                                                     *)
(***************************************************************************)
\* the last call was a step() that executed JR d, JR cc,d or DJNZ d
JrDone == last.op = "step" /\ FromMemory(prev.cpu) /\ \E inst \in JrOps : Executed(cpu, inst)

\* the branch of the instruction is taken from the state before the step
JrTaken ==
    CASE cpu.current_inst = 24 -> TRUE
      [] cpu.current_inst = 16 -> (prev.cpu.b - 1) % 256 # 0
      [] cpu.current_inst = 32 -> ~prev.cpu.zero
      [] cpu.current_inst = 40 -> prev.cpu.zero
      [] cpu.current_inst = 48 -> ~prev.cpu.carry
      [] cpu.current_inst = 56 -> prev.cpu.carry

\* where a taken branch lands, unreduced
JrTarget == prev.cpu.pc + 2 + Signed(mem_byte(prev.ram, prev.cpu.pc + 1))

\* B, the cost and the fall-through of the instruction; a taken branch
\* lands at target
JrEffect(target) ==
    /\ raised = "none" /\ ram = prev.ram
    /\ cpu.pc = IF JrTaken THEN target ELSE prev.cpu.pc + 2
    /\ cpu.b = IF cpu.current_inst = 16 THEN (prev.cpu.b - 1) % 256 ELSE prev.cpu.b
    /\ cpu.cycles - prev.cpu.cycles =
          CASE cpu.current_inst = 24 -> 12
            [] cpu.current_inst = 16 -> IF JrTaken THEN 13 ELSE 8
            [] OTHER -> IF JrTaken THEN 12 ELSE 7

\* C23: for JR d, JR cc,d and DJNZ d at address a with signed d, a taken
\* branch leaves PC = (a + 2 + d) mod 2^16 and one not taken PC = a + 2; JR cc
\* tests only Z or C; DJNZ first sets B to (B-1) mod 256 and branches iff the
\* new B is not 0; the costs are 12 (JR), 12/7 (JR cc) and 13/8 (DJNZ).
C23_Relative ==
    JrDone => JrEffect(JrTarget % 65536)

\* what the code does: C23 with the target a + 2 + d not reduced
C23_Relative_Unreduced ==
    JrDone => JrEffect(JrTarget)

\* DJNZ -5 at 0x0100 with B = 2, taken to 0x00FD although Z is set
C23_Witness ==
    /\ JrDone /\ cpu.current_inst = 16 /\ prev.cpu.pc = 256 /\ prev.cpu.b = 2
    /\ prev.cpu.zero /\ cpu.b = 1 /\ cpu.pc = 253 /\ cpu.cycles = prev.cpu.cycles + 13

(***************************************************************************)
(* C24                                                                     *)
(***************************************************************************)
\* the last call was a step() that executed CALL cc,nn or RET cc
CondDone == last.op = "step" /\ FromMemory(prev.cpu) /\ \E inst \in CondOps : Executed(cpu, inst)

\* the condition code of the instruction
CondCode == (cpu.current_inst \div 8) % 8

\* cc on the flags before the step, P/V being pv
CondHolds(pv) ==
    CASE CondCode = 0 -> ~prev.cpu.zero
      [] CondCode = 1 -> prev.cpu.zero
      [] CondCode = 2 -> ~prev.cpu.carry
      [] CondCode = 3 -> prev.cpu.carry
      [] CondCode = 4 -> ~pv
      [] CondCode = 5 -> pv
      [] CondCode = 6 -> ~prev.cpu.sign
      [] CondCode = 7 -> prev.cpu.sign

\* the step did what CALL cc,nn or RET cc does when cc is true / false
CondEffect(true) ==
    LET a == prev.cpu.pc
        sp == prev.cpu.sp
    IN /\ raised = "none"
       /\ IF cpu.current_inst % 8 = 4
          THEN IF true
               THEN /\ mem_word(ram, sp - 2) = a + 3
                    /\ ram = Poke(Poke(prev.ram, sp - 1, (a + 3) \div 256), sp - 2, (a + 3) % 256)
                    /\ cpu.sp = sp - 2
                    /\ cpu.pc = mem_word(prev.ram, a + 1)
                    /\ cpu.cycles = prev.cpu.cycles + 17
               ELSE /\ cpu.sp = sp /\ ram = prev.ram
                    /\ cpu.pc = a + 3
                    /\ cpu.cycles = prev.cpu.cycles + 10
          ELSE IF true
               THEN /\ cpu.pc = mem_word(prev.ram, sp)
                    /\ cpu.sp = sp + 2 /\ ram = prev.ram
                    /\ cpu.cycles = prev.cpu.cycles + 11
               ELSE /\ cpu.sp = sp /\ ram = prev.ram
                    /\ cpu.pc = a + 1
                    /\ cpu.cycles = prev.cpu.cycles + 5

\* C24: for every condition code cc, CALL cc,nn at address a with cc true
\* pushes a+3, sets PC=nn and costs 17 T-states, with cc false leaves SP and
\* memory unchanged, sets PC=a+3 and costs 10; RET cc with cc true pops PC,
\* adds 2 to SP and costs 11, with cc false leaves SP unchanged, sets PC=a+1
\* and costs 5; cc is evaluated on the current Z, C, P/V and S flags.
C24_CondCallRet ==
    CondDone => CondEffect(CondHolds(prev.cpu.parity_overflow))

\* what the code does: C24 for the conditions on Z, C and S; PO and PE raise
\* AttributeError until an INC r or DEC r has run and then follow the parity
\* of its result
C24_CondCallRet_ZCS ==
    CondDone =>
        IF CondCode \in {4, 5} /\ ~prev.cpu.has_parity
        THEN /\ raised = "AttributeError"
             /\ cpu.sp = prev.cpu.sp /\ ram = prev.ram /\ cpu.cycles = prev.cpu.cycles
        ELSE CondEffect(CondHolds(prev.cpu.parity))

\* CALL M,0x4000 at 0x0100 with S set: 0x0103 pushed at 0x7FFE
C24_Witness ==
    /\ CondDone /\ cpu.current_inst = 252 /\ prev.cpu.sign /\ prev.cpu.pc = 256
    /\ cpu.pc = 16384 /\ cpu.sp = 32766 /\ mem_word(ram, 32766) = 259
    /\ cpu.cycles = prev.cpu.cycles + 17

(***************************************************************************)
(* C25                                                                     *)
(***************************************************************************)
\* the last call was a step() whose opcode, read from memory, has an empty
\* dispatch slot
EmptySlot == last.op = "step" /\ FromMemory(prev.cpu) /\ select(cpu) = "None"

\* the bytes step() reads while decoding: the opcode, a prefix before it, and
\* on the DDCB/FDCB pages the second prefix and the displacement
DecodedBytes ==
    IF cpu.instruction_prefix = None THEN 1
    ELSE IF cpu.instruction_prefix < 256 THEN 2 ELSE 4

IoDone ==
    /\ last.op = "step" /\ FromMemory(prev.cpu)
    /\ Executed(cpu, 219) \/ Executed(cpu, 211)
    /\ mem_byte(prev.ram, prev.cpu.pc + 1) \in machine.io

\* C26: IN A,(n) asks the bus for port n with the companion byte A and stores
\* the byte the device returns in A, OUT (n),A delivers (offset, companion =
\* A, value = A) to the device; each costs 11 T-states and neither raises for
\* a mapped device.
C26_InOut ==
    IoDone => (raised = "none" /\ cpu.cycles = prev.cpu.cycles + 11)

\* what the code does: the call to the bus fails on its argument count, after
\* the port number was fetched and before anything was counted or stored
C26_InOut_TypeError ==
    IoDone =>
        /\ raised = "TypeError"
        /\ cpu.a = prev.cpu.a /\ cpu.cycles = prev.cpu.cycles /\ ram = prev.ram
        /\ cpu.pc = prev.cpu.pc + 2

\* OUT (0xFE),A with A = 1
C26_Witness ==
    IoDone /\ Executed(cpu, 211) /\ prev.cpu.a = 1 /\ mem_byte(prev.ram, prev.cpu.pc + 1) = 254

(***************************************************************************)
(* C27                                                                     *)
(***************************************************************************)
\* the opcodes C27 names, as <<prefix, opcode>>: NEG, IN r,(C), OUT (C),r;
\* RLC, RRC, RL, RR, SLA, SRA, SRL on the eight operands; LD IX/IY,nn,
\* PUSH and POP IX/IY, ADD IX/IY,rp, JP (IX) / JP (IY)
ListedOpcodes ==
    {<<237, op>> : op \in {68} \cup {64, 72, 80, 88, 96, 104, 120}
                               \cup {65, 73, 81, 89, 97, 105, 121}}
    \cup {<<203, op>> : op \in (0..47) \cup (56..63)}
    \cup {<<p, op>> : p \in {221, 253}, op \in {33, 229, 225, 9, 25, 41, 57, 233}}

\* the last call was a step() on one of them, read from memory
ListedDone ==
    /\ last.op = "step" /\ FromMemory(prev.cpu)
    /\ <<cpu.instruction_prefix, cpu.current_inst>> \in ListedOpcodes

\* C27: every opcode the specification lists as covered has a handler, so
\* step() on it never raises InvalidInstruction: NEG, IN r,(C), OUT (C),r,
\* the CB rotates and shifts on all eight operands, LD IX,nn, PUSH/POP IX and
\* IY, ADD IX,rp and ADD IY,rp, JP (IX) and JP (IY).
C27_Covered ==
    ListedDone => raised # "InvalidInstruction"

\* what the code does: of these only LD IY,nn (FD 21) has a handler
C27_Covered_OnlyLdIy ==
    ListedDone =>
        (raised = "InvalidInstruction" <=> <<cpu.instruction_prefix, cpu.current_inst>> # <<253, 33>>)

\* NEG (ED 44) at 0 of the reset machine finds its slot empty
C27_Witness ==
    /\ ListedDone /\ cpu.instruction_prefix = 237 /\ cpu.current_inst = 68
    /\ prev.cpu.pc = 0 /\ raised = "InvalidInstruction"

(***************************************************************************)
(* Emulator.run(num_cycles): the call, each turn of its while loop and its *)
(* return are separate steps; no breakpoint is registered, so              *)
(* Emulator.step is cpu.step().                                            *)
(***************************************************************************)
\* no run is started once the cycle counter has reached this
MaxRunCycles == 40

\* cycle budgets asked for; 0 asks for a run without end
RunCycles == {0, 1, 4, 7, 8, 11, 14}

\* NOPs only; LD BC,nn / INC B / LD HL,nn / INC (HL) / NOPs; LD A,n / ADD A,n
\* / NOP / HALT
RunPrograms ==
    { <<>>,
      Load(0, <<1, 52, 18, 4, 33, 0, 64, 52>>),
      Load(0, <<62, 1, 198, 2, 0, 118>>) }

InitRun ==
    /\ cpu = NewCPU
    /\ ram \in RunPrograms
    /\ raised = "none"
    /\ last = [op |-> "init", data |-> <<>>]
    /\ last2 = [op |-> "init", data |-> <<>>]
    /\ prev = [cpu |-> cpu, ram |-> ram, reads |-> <<>>]
    /\ entry = [cpu |-> cpu, ram |-> ram]
    /\ nsched = 0
    /\ nreset = 0
    /\ machine = NewMachine
    /\ running = NotRunning

\* Emulator.run is called: stop_at = self._cpu._cycles + num_cycles
RunCall ==
    /\ raised = "none" /\ running = NotRunning
    /\ cpu.cycles < MaxRunCycles
    /\ \E n \in RunCycles :
          /\ running' = [num_cycles |-> n, stop_at |-> cpu.cycles + n]
          /\ last' = [op |-> "run", data |-> <<n>>]
    /\ last2' = last
    /\ prev' = [cpu |-> cpu, ram |-> ram, reads |-> <<>>]
    /\ entry' = [cpu |-> cpu, ram |-> ram]
    /\ UNCHANGED <<cpu, ram, raised, nsched, nreset, machine>>

\* the loop condition holds and self.step() runs; an exception leaves run()
RunStep ==
    /\ raised = "none" /\ running # NotRunning
    /\ running.num_cycles = 0 \/ cpu.cycles <= running.stop_at
    /\ running.num_cycles = 0 => cpu.cycles < MaxRunCycles
    /\ LET z == step(Ctx(cpu, ram))
       IN /\ cpu' = CpuOf(z)
          /\ ram' = z.ram
          /\ raised' = z.exc
          /\ running' = IF z.exc = "none" THEN running ELSE NotRunning
    /\ last' = [op |-> "step", data |-> <<>>]
    /\ last2' = last
    /\ prev' = [cpu |-> cpu, ram |-> ram, reads |-> <<>>]
    /\ UNCHANGED <<entry, nsched, nreset, machine>>

\* the loop condition fails and run() returns
RunReturn ==
    /\ raised = "none" /\ running # NotRunning
    /\ ~(running.num_cycles = 0 \/ cpu.cycles <= running.stop_at)
    /\ running' = NotRunning
    /\ last' = [op |-> "return", data |-> <<>>]
    /\ last2' = last
    /\ prev' = [cpu |-> cpu, ram |-> ram, reads |-> <<>>]
    /\ UNCHANGED <<cpu, ram, raised, entry, nsched, nreset, machine>>

NextRun == RunCall \/ RunStep \/ RunReturn

SpecRun == InitRun /\ [][NextRun]_vars

(***************************************************************************)
(* C28                                                                     *)
(***************************************************************************)
\* a run(n) with n > 0 is in progress
RunningFor == running # NotRunning /\ running.num_cycles > 0

\* the advance of the cycle counter since the run was called
RunAdvance == cpu.cycles - entry.cpu.cycles

\* C28: Emulator.run(n) with n > 0 executes steps until the cycle counter has
\* advanced by at least n since the call and returns right after the first
\* step that reaches that advance; it never executes a further instruction
\* once the advance is >= n (run(4) over NOPs executes exactly one NOP).
C28_RunStops ==
    [][RunningFor =>
          /\ RunAdvance >= running.num_cycles => cpu' = cpu
          /\ running' = NotRunning /\ raised' = "none" => RunAdvance >= running.num_cycles
      ]_vars

\* what the code does: the run goes on while the advance is <= n and returns
\* once it is > n
C28_RunStops_Past ==
    [][RunningFor =>
          /\ RunAdvance > running.num_cycles => cpu' = cpu
          /\ running' = NotRunning /\ raised' = "none" => RunAdvance > running.num_cycles
          /\ RunAdvance <= running.num_cycles => cpu'.cycles > cpu.cycles \/ raised' # "none"
      ]_vars

\* run(4) over NOPs about to return after two NOPs
C28_Witness ==
    /\ RunningFor /\ running.num_cycles = 4 /\ ram = <<>>
    /\ last.op = "step" /\ last2.op = "step" /\ RunAdvance = 8

(***************************************************************************)
(* C29                                                                     *)
(***************************************************************************)
\* the length of the instruction the opcode op starts (the opcodes of
\* IntPayloads)
InstLength(op) ==
    CASE op \in {205, 195} -> 3
      [] op = 62 -> 2
      [] op \in {0, 60} -> 1

\* the payload the run was entered with, in IM 0 with IFF1 set, does not
\* have the length of the instruction its first byte starts
Mismatched ==
    /\ entry.cpu.iff1 /\ entry.cpu.interrupt_mode = 0
    /\ entry.cpu.interrupt_instructions # <<>>
    /\ Len(entry.cpu.interrupt_instructions) # InstLength(entry.cpu.interrupt_instructions[1])

\* the last call was the first step() after the payload was queued
FirstStep == last.op = "step" /\ last2.op = "init"

\* the last call was a step() that took its opcode from the queue
FromQueue == last.op = "step" /\ prev.cpu.iff1 /\ prev.cpu.interrupt_instructions # <<>>

\* C29: in IM 0 with IFF1 true, a payload whose length differs from the
\* length of the instruction its first byte encodes ([0xCD], [0xCD, lo], a
\* 3-byte payload starting with a 1-byte opcode) makes the next step() fail
\* with a fatal error; it is never completed with operand bytes read from
\* memory at PC, and no leftover payload byte is executed as an instruction
\* by a later step.
C29_PayloadMismatch ==
    Mismatched =>
        /\ FirstStep => (raised # "none" /\ cpu.pc = prev.cpu.pc)
        /\ FromQueue => FirstStep

\* what the code does: only a word operand of which one byte is queued is
\* refused; a payload that ends after the opcode is completed from memory at
\* PC, and one that is too long has its next byte executed by the next step
C29_PayloadMismatch_ShortWord ==
    (Mismatched /\ FirstStep) =>
        LET data == entry.cpu.interrupt_instructions
        IN /\ (InstLength(data[1]) = 3 /\ Len(data) = 2) =>
                 (raised = "InvalidInstruction" /\ cpu.pc = prev.cpu.pc /\ ram = prev.ram)
           /\ Len(data) = 1 =>
                 (raised = "none" /\ cpu.pc # prev.cpu.pc /\ cpu.interrupt_instructions = <<>>)
           /\ InstLength(data[1]) = 1 =>
                 (raised = "none" /\ cpu.pc = prev.cpu.pc /\ cpu.interrupt_instructions = Tail(data))

\* [0xCD, 0xEF] was queued and the step refused it
C29_Witness ==
    /\ Mismatched /\ FirstStep /\ entry.cpu.interrupt_instructions = <<205, 239>>
    /\ raised = "InvalidInstruction" /\ cpu.pc = 0

(***************************************************************************)
(* The Machine bus called directly, as the Machine tests do: a RAM device  *)
(* at 0x8000-0x8FFF, an I/O device at port 0x42, and the strict flag set   *)
(* and cleared through set_strict_validation.                              *)
(***************************************************************************)
MemoryOps == {"read_memory_byte", "read_memory_word", "write_memory_byte", "write_memory_word"}
IoOps == {"read_io", "write_io"}

\* addresses below, inside (middle, last) and above the RAM; ports with and
\* without a device; the values written
BusAddresses == {4660, 34661, 36863, 36864}
BusPorts == {66, 36}
BusBytes == {66}
BusWords == {48879}

\* Machine() with add_memory(MemoryDevice(RAM(), 0x8000, 0x8fff)) and
\* add_io(IODevice(device, 0x42))
BusMachine == [strict |-> FALSE, memory |-> <<32768, 36863>>, io |-> {66}]

\* MemoryMgr.get_memory_for_addr / self._io.get: a device answers addr
registered(mc, op, addr) ==
    IF op \in IoOps THEN addr \in mc.io
    ELSE addr >= mc.memory[1] /\ addr <= mc.memory[2]

\* an unregistered address that strict validation does not report
unregistered_quiet(mc, m, op) ==
    [ram |-> m, exc |-> "none",
     ret |-> CASE op \in {"read_memory_byte", "read_io"} -> 255
               [] op = "read_memory_word" -> 65535
               [] OTHER -> None]

\* Machine._get_memory / Machine._get_io finding no device, and what the
\* caller then returns
unregistered(mc, m, op) ==
    IF mc.strict
    THEN [ram |-> m, exc |-> IF op \in IoOps THEN "IOError" ELSE "MemoryError", ret |-> None]
    ELSE [ram |-> m, exc |-> "none",
          ret |-> CASE op \in {"read_memory_byte", "read_io"} -> 255
                    [] op = "read_memory_word" -> 65535
                    [] OTHER -> None]

\* Machine.read_memory_byte, read_memory_word, write_memory_byte,
\* write_memory_word, read_io and write_io on the RAM buffer m: the buffer,
\* the exception and the value returned. IODevice.read_io and write_io do not
\* take the extra_addr that Machine passes.
machine_call(mc, m, op, addr, value) ==
    LET offset == addr - mc.memory[1]
        size == mc.memory[2] - mc.memory[1] + 1
        done(m1, e, r) == [ram |-> m1, exc |-> e, ret |-> r]
    IN IF ~registered(mc, op, addr) THEN unregistered(mc, m, op)
       ELSE CASE op = "read_memory_byte" -> done(m, "none", ram_read_byte(m, offset))
              [] op = "read_memory_word" ->
                    IF offset + 1 >= size THEN done(m, "IndexError", None)
                    ELSE done(m, "none", ram_read_byte(m, offset) + 256 * ram_read_byte(m, offset + 1))
              [] op = "write_memory_byte" ->
                    IF value < 0 \/ value > 255 THEN done(m, "ValueError", None)
                    ELSE done(ram_store(m, offset, value), "none", None)
              [] op = "write_memory_word" ->
                    IF value < 0 \/ value > 65535 THEN done(m, "ValueError", None)
                    ELSE IF offset + 1 >= size
                    THEN done(ram_store(m, offset, value % 256), "IndexError", None)
                    ELSE done(ram_store(ram_store(m, offset, value % 256),
                                        offset + 1, value \div 256), "none", None)
              [] op \in IoOps -> done(m, "TypeError", None)

InitBus ==
    /\ cpu = NewCPU
    /\ ram = <<>>
    /\ raised = "none"
    /\ last = [op |-> "init", data |-> <<>>]
    /\ last2 = [op |-> "init", data |-> <<>>]
    /\ prev = [cpu |-> cpu, ram |-> ram, reads |-> <<>>]
    /\ entry = [cpu |-> cpu, ram |-> ram]
    /\ nsched = 0
    /\ nreset = 0
    /\ machine = BusMachine
    /\ running = NotRunning

\* machine.set_strict_validation(strict)
SetStrictValidation ==
    /\ \E strict \in BOOLEAN :
          /\ machine' = [machine EXCEPT !.strict = strict]
          /\ last' = [op |-> "set_strict_validation", data |-> <<strict>>]
    /\ raised' = "none"
    /\ last2' = last
    /\ prev' = [cpu |-> cpu, ram |-> ram, reads |-> <<>>]
    /\ UNCHANGED <<cpu, ram, entry, nsched, nreset, running>>

\* one call of a bus method; the caller catches what it raises
BusCall ==
    /\ \E op \in MemoryOps \cup IoOps :
       \E addr \in (IF op \in IoOps THEN BusPorts ELSE BusAddresses) :
       \E value \in (CASE op = "write_memory_byte" -> BusBytes
                       [] op = "write_memory_word" -> BusWords
                       [] op = "write_io" -> BusBytes
                       [] OTHER -> {None}) :
          LET r == machine_call(machine, ram, op, addr, value)
          IN /\ ram' = r.ram
             /\ raised' = r.exc
             /\ last' = [op |-> op, data |-> <<addr, value, r.ret>>]
    /\ last2' = last
    /\ prev' = [cpu |-> cpu, ram |-> ram, reads |-> <<>>]
    /\ UNCHANGED <<cpu, entry, nsched, nreset, machine, running>>

NextBus == SetStrictValidation \/ BusCall

SpecBus == InitBus /\ [][NextBus]_vars

(***************************************************************************)
(* C30                                                                     *)
(***************************************************************************)
\* the last call was a bus access
BusDone == last.op \in MemoryOps \cup IoOps

\* the address or port of the access, and whether a device is registered
\* for it
BusAddr == last.data[1]
BusRegistered ==
    IF last.op \in IoOps THEN BusAddr \in machine.io
    ELSE BusAddr \in machine.memory[1]..machine.memory[2]

\* C30: in non-strict mode, reading an address or port with no registered
\* device returns 0xFF for a byte and 0xFFFF for a word, and writing to it
\* changes no state and raises nothing; in strict mode the same accesses raise
\* MemoryError (memory) or IOError (I/O) and change no state; accesses to
\* registered devices behave identically in both modes.
C30_Bus ==
    BusDone =>
        /\ (~BusRegistered /\ ~machine.strict) =>
              /\ raised = "none" /\ ram = prev.ram
              /\ last.op \in {"read_memory_byte", "read_io"} => last.data[3] = 255
              /\ last.op = "read_memory_word" => last.data[3] = 65535
        /\ (~BusRegistered /\ machine.strict) =>
              /\ raised = (IF last.op \in IoOps THEN "IOError" ELSE "MemoryError")
              /\ ram = prev.ram
        /\ BusRegistered =>
              LET other == machine_call([machine EXCEPT !.strict = ~@], prev.ram,
                                        last.op, BusAddr, last.data[2])
              IN ram = other.ram /\ raised = other.exc /\ last.data[3] = other.ret

\* a word written to unmapped 0x1234 in strict mode, after the RAM was written
C30_Witness ==
    /\ BusDone /\ last.op = "write_memory_word" /\ BusAddr = 4660 /\ machine.strict
    /\ raised = "MemoryError" /\ ram = prev.ram /\ ram # <<>>

(***************************************************************************)
(* LD r,r': one of the 63 moves at address 0 (HALT after it), stepped from *)
(* a CPU whose byte registers, HL and F were set through their properties. *)
(***************************************************************************)
\* 0x40..0x7F without 0x76
LdOps == (64..127) \ {118}
\* B, C, D, E, A
LdRegs == {<<17, 34, 51, 68, 119>>, <<0, 255, 128, 1, 0>>}
\* HL: a data cell, the instruction itself, the last cell of memory
LdHLs == {16416, 0, 65535}
LdFlags == {0, 65, 215}

LdSetups ==
    LET mem(op) == Load(0, <<op, 118>>) @@ Load(16416, <<90>>) @@ Load(65535, <<165>>)
        regs(v, hl, f) ==
            set_f(set_hl(set_register(set_register(set_register(set_register(set_register(
                Ctx(NewCPU, <<>>), 0, v[1]), 1, v[2]), 2, v[3]), 3, v[4]), 7, v[5]), hl), f)
    IN {Setup(mem(op), regs(v, hl, f)) :
           op \in LdOps, v \in LdRegs, hl \in LdHLs, f \in LdFlags}

InitLd ==
    /\ StartsFrom(LdSetups)
    /\ raised = "none"
    /\ last = [op |-> "init", data |-> <<>>]
    /\ last2 = [op |-> "init", data |-> <<>>]
    /\ prev = [cpu |-> cpu, ram |-> ram, reads |-> <<>>]
    /\ entry = [cpu |-> cpu, ram |-> ram]
    /\ nsched = 0
    /\ nreset = 0
    /\ machine = NewMachine
    /\ running = NotRunning

SpecLd == InitLd /\ [][Step]_vars

(***************************************************************************)
(* C31                                                                     *)
(***************************************************************************)
\* the last call was a step() that executed LD r,r'
LdDone ==
    /\ last.op = "step" /\ FromMemory(prev.cpu)
    /\ cpu.instruction_prefix = None /\ cpu.current_inst \in LdOps

\* the field of the CPU object that holds operand r (r # 6)
RegField(r) ==
    CASE r = 0 -> "b" [] r = 1 -> "c" [] r = 2 -> "d" [] r = 3 -> "e"
      [] r = 4 -> "h" [] r = 5 -> "l" [] r = 7 -> "a"

\* C31: for all destination and source operands in {B, C, D, E, H, L, (HL),
\* A} (opcode 0x76 excluded), LD r,r' leaves the destination equal to the
\* source value, changes no flag and no other register, and costs 4 T-states
\* when both operands are registers and 7 when either operand is (HL).
C31_LdRR ==
    LdDone =>
        LET dst == (cpu.current_inst \div 8) % 8
            src == cpu.current_inst % 8
            value == ByteAt(prev.cpu, prev.ram, src)
        IN /\ raised = "none"
           /\ IF dst = 6
              THEN /\ mem_byte(ram, Pair(prev.cpu, 2)) = value
                   /\ ram = Poke(prev.ram, Pair(prev.cpu, 2), value)
              ELSE cpu[RegField(dst)] = value /\ ram = prev.ram
           /\ \A f \in FlagFields : cpu[f] = prev.cpu[f]
           /\ \A f \in (RegFields \cup IntFields \cup {"sp"})
                        \ (IF dst = 6 THEN {} ELSE {RegField(dst)}) :
                 cpu[f] = prev.cpu[f]
           /\ cpu.cycles = prev.cpu.cycles + (IF src = 6 \/ dst = 6 THEN 7 ELSE 4)

\* LD (HL),D (0x72) with D = 0x33 and all six flags set: 7 T-states
C31_Witness ==
    /\ LdDone /\ cpu.current_inst = 114 /\ raised = "none"
    /\ prev.cpu.d = 51 /\ Pair(prev.cpu, 2) = 16416 /\ mem_byte(prev.ram, 16416) = 90
    /\ mem_byte(ram, 16416) = 51 /\ cpu.cycles = 7 /\ FlagByte(cpu) = 215

(***************************************************************************)
(* C32                                                                     *)
(***************************************************************************)
\* the last call was a step() that read a CB or ED prefix and then the byte
\* 0xCB from memory
CbSecond ==
    /\ last.op = "step" /\ FromMemory(prev.cpu)
    /\ mem_byte(prev.ram, prev.cpu.pc) \in {203, 237}
    /\ mem_byte(prev.ram, prev.cpu.pc + 1) = 203

\* C32: a second byte 0xCB forms a double prefix only when the first prefix
\* byte is DD or FD; after a CB or ED prefix the byte 0xCB is the opcode
\* itself, so CB CB decodes as the 2-byte CB-page instruction SET 1,E, reads
\* no displacement byte and advances PC by 2.
C32_CbOpcode ==
    /\ (last.op = "step" /\ FromMemory(prev.cpu) /\ cpu.instruction_prefix >= 256) =>
           mem_byte(prev.ram, prev.cpu.pc) \in {221, 253}
    /\ CbSecond =>
           /\ cpu.instruction_prefix = mem_byte(prev.ram, prev.cpu.pc)
           /\ cpu.current_inst = 203
           /\ cpu.displacement = prev.cpu.displacement
           /\ cpu.pc = prev.cpu.pc + 2
           /\ cpu.instruction_prefix = 203 =>
                  /\ raised = "none"
                  /\ cpu.e = WithBit(prev.cpu.e, 1, 1)
                  /\ cpu.cycles = prev.cpu.cycles + 8

\* what the code does: any prefix followed by 0xCB is composed into a double
\* prefix, a displacement and a fourth byte are read, and since 0xCBCB and
\* 0xEDCB select no page the fourth byte is looked up in the unprefixed table
C32_CbOpcode_Composed ==
    CbSecond =>
        /\ cpu.instruction_prefix = 256 * mem_byte(prev.ram, prev.cpu.pc) + 203
        /\ cpu.displacement = Signed(mem_byte(prev.ram, prev.cpu.pc + 2))
        /\ cpu.current_inst = mem_byte(prev.ram, prev.cpu.pc + 3)
        /\ select(cpu) = instructions(cpu.current_inst)
        /\ (raised = "InvalidInstruction") = (select(cpu) = "None")
        /\ select(cpu) \in {"None", "nop", "inc_reg8"} => cpu.pc = prev.cpu.pc + 4
        /\ select(cpu) = "nop" =>
               cpu.e = prev.cpu.e /\ cpu.cycles = prev.cpu.cycles + 4

\* CB CB 00 00 at address 0 was executed as a 4-byte NOP: E is untouched
C32_Witness ==
    /\ CbSecond /\ prev.cpu.pc = 0 /\ mem_byte(prev.ram, 0) = 203
    /\ cpu.instruction_prefix = 52171 /\ cpu.current_inst = 0
    /\ cpu.pc = 4 /\ cpu.cycles = 4 /\ cpu.e = 0 /\ raised = "none"

(***************************************************************************)
(* A bus device that raises an interrupt while it is being read: programs  *)
(* that set SP and the interrupt mode, enable interrupts and then load and *)
(* jump, run by step() calls during one or two of which the device calls   *)
(* schedule_interrupt from the read of the first instruction byte.         *)
(***************************************************************************)
\* LD SP,1234 ; [IM 1 | LD A,BE ; LD I,A ; IM 2 ;] EI ; NOP ; LD A,42 ;
\* LD B,07 ; JP 0040
CallbackPrograms ==
    LET body == <<251, 0, 62, 66, 6, 7, 195, 64, 0>>
    IN { Prog(<<49, 52, 18>> \o body),
         Prog(<<49, 52, 18, 237, 86>> \o body),
         Load(48862, <<239, 190>>) @@ Prog(<<49, 52, 18, 62, 190, 237, 71, 237, 94>> \o body) }

\* what the device hands over: RST 38 (as Machine.schedule_interrupt does),
\* CALL BEEF, NOP
CallbackPayloads == {<<255>>, <<205, 239, 190>>, <<0>>}

InitCallback ==
    /\ cpu = NewCPU
    /\ ram \in CallbackPrograms
    /\ raised = "none"
    /\ last = [op |-> "init", data |-> <<>>]
    /\ last2 = [op |-> "init", data |-> <<>>]
    /\ prev = [cpu |-> NewCPU, ram |-> ram, reads |-> <<>>]
    /\ entry = [cpu |-> NewCPU, ram |-> ram]
    /\ nsched = 0
    /\ nreset = 0
    /\ machine = NewMachine
    /\ running = NotRunning

\* cpu.step() whose first byte is read from memory, with the device calling
\* schedule_interrupt(data) during that read
StepInCallback ==
    /\ raised = "none"
    /\ cpu.cycles < MaxCycles
    /\ nsched < MaxSched
    /\ FromMemory(cpu)
    /\ \E data \in CallbackPayloads :
          LET z == step_in_callback(Ctx(cpu, ram), data)
          IN /\ cpu' = CpuOf(z)
             /\ ram' = z.ram
             /\ raised' = z.exc
             /\ Called("step_in_callback", data,
                       schedule_interrupt_reads(Ctx(cpu, ram), data))
    /\ nsched' = nsched + 1
    /\ UNCHANGED nreset

NextCallback == Step \/ StepInCallback

SpecCallback == InitCallback /\ [][NextCallback]_vars

(***************************************************************************)
(* C33                                                                     *)
(***************************************************************************)
\* the last call was a step() during whose first read the device called
\* schedule_interrupt
CallbackDone == last.op = "step_in_callback"

\* the queue a schedule_interrupt(last.data) made before the step leaves
Scheduled ==
    schedule_interrupt(Ctx(prev.cpu, prev.ram), last.data).interrupt_instructions

\* the operand bytes of the instruction the step executed: 1 for LD r,n,
\* 2 for LD rp,nn / JP nn, 0 for the others the programs hold
OperandBytes ==
    CASE cpu.instruction_prefix = None /\ cpu.current_inst \in {6, 62} -> 1
      [] cpu.instruction_prefix = None /\ cpu.current_inst \in {49, 195} -> 2
      [] OTHER -> 0

\* the register or PC the operand went to
OperandTaken ==
    CASE cpu.current_inst = 6 -> cpu.b
      [] cpu.current_inst = 62 -> cpu.a
      [] cpu.current_inst = 49 -> cpu.sp
      [] cpu.current_inst = 195 -> cpu.pc

\* C33: if schedule_interrupt is invoked from a bus callback while a step is
\* in progress (for example during the memory read of the opcode byte of
\* LD A,n or JP nn), the instruction in progress still takes all its
\* remaining operand bytes from memory at PC and advances PC normally; the
\* injected bytes are first consumed by the opcode fetch of the next step().
C33_CallbackDeferred ==
    CallbackDone =>
        LET normal == step(Ctx(prev.cpu, prev.ram))
        IN /\ raised = normal.exc
           /\ ram = normal.ram
           /\ \A f \in DOMAIN cpu \ {"interrupt_instructions"} : cpu[f] = normal[f]
           /\ cpu.interrupt_instructions = Scheduled

\* what the code does: _fetch_next_byte and _fetch_next_word look at the
\* queue on every call, so an instruction without operand bytes is as C33
\* says, while the operand of LD r,n and of LD SP,nn / JP nn is taken from
\* the bytes just queued (with one byte queued the word fetch raises) and PC
\* stays right after the opcode
C33_CallbackDeferred_NoOperand ==
    (CallbackDone /\ prev.cpu.iff1) =>
        /\ OperandBytes = 0 =>
              /\ cpu.interrupt_instructions = Scheduled \/ ~cpu.iff1
              /\ cpu.pc = step(Ctx(prev.cpu, prev.ram)).pc
        /\ OperandBytes = 1 =>
              /\ OperandTaken = Scheduled[1]
              /\ cpu.interrupt_instructions = Tail(Scheduled)
              /\ cpu.pc = prev.cpu.pc + 1
        /\ (OperandBytes = 2 /\ Len(Scheduled) = 1) =>
              /\ raised = "InvalidInstruction"
              /\ cpu.interrupt_instructions = Scheduled /\ cpu.pc = prev.cpu.pc + 1
        /\ (OperandBytes = 2 /\ Len(Scheduled) >= 2) =>
              /\ OperandTaken = Scheduled[1] + 256 * Scheduled[2]
              /\ cpu.interrupt_instructions = Tail(Tail(Scheduled))
              /\ cpu.current_inst = 49 => cpu.pc = prev.cpu.pc + 1

\* IM 0, LD A,42 at 0005 read while the device queues RST 38: A is 0xFF, the
\* queue is empty again and PC points at the 42
C33_Witness ==
    /\ CallbackDone /\ last.data = <<255>> /\ prev.cpu.iff1 /\ prev.cpu.interrupt_mode = 0
    /\ prev.cpu.pc = 5 /\ cpu.current_inst = 62 /\ mem_byte(ram, 6) = 66
    /\ cpu.a = 255 /\ cpu.pc = 6 /\ cpu.interrupt_instructions = <<>> /\ raised = "none"

(***************************************************************************)
(* C34                                                                     *)
(***************************************************************************)
\* the last call was a step() that executed SUB, SBC or CP
SubDone == AluDone /\ AluOp \in {2, 3, 7}

\* C34: for SUB, SBC and CP with accumulator a, operand v and carry-in c
\* (c = 0 for SUB and CP), H is set iff the subtraction borrows from bit 4,
\* that is iff (a & 0x0F) < (v & 0x0F) + c.
C34_SubHalfBorrow ==
    SubDone =>
        cpu.half_carry = ((prev.cpu.a % 16) < (AluOperand % 16) + CarryIn)

\* what the code does: it adds the low nibble of -(v + c) to the low nibble
\* of a and sets H on a carry out of bit 3, which is the absence of a borrow
\* unless the low nibble of v + c is 0 (then H is clear)
C34_SubHalfBorrow_NibbleCarry ==
    SubDone =>
        LET n == (AluOperand + CarryIn) % 16
        IN cpu.half_carry = (n # 0 /\ (prev.cpu.a % 16) >= n)

\* SUB B of 0x10 - 0x01 = 0x0F, which borrows from bit 4, leaves H clear
C34_Witness ==
    /\ SubDone /\ AluOp = 2 /\ cpu.instruction_prefix = None /\ cpu.current_inst = 144
    /\ prev.cpu.a = 16 /\ AluOperand = 1 /\ cpu.a = 15
    /\ ~cpu.half_carry /\ raised = "none"

(***************************************************************************)
(* C35                                                                     *)
(***************************************************************************)
\* the last call was a step() that executed CP
CpDone == AluDone /\ AluOp = 7

\* the state SUB leaves when it stands where the CP stood: the opcode of
\* SUB s is that of CP s less 0x28
SubInstead ==
    LET at == IF cpu.instruction_prefix = None THEN prev.cpu.pc ELSE prev.cpu.pc + 1
    IN step(Ctx(prev.cpu, Poke(prev.ram, at, cpu.current_inst - 40)))

\* C35: for all a and v and any prior flags, CP v leaves A unchanged and
\* leaves all six flags exactly equal to what SUB v would leave when run from
\* the same state.
C35_CpAsSub ==
    CpDone =>
        /\ raised = "none" /\ SubInstead.exc = "none"
        /\ cpu.a = prev.cpu.a
        /\ \A f \in FlagFields : cpu[f] = SubInstead[f]

\* CP B of 0x10 with 0x11 and carry set before: A is kept, S, N and C are
\* set as SUB B sets them with A = 0xFF
C35_Witness ==
    /\ CpDone /\ cpu.instruction_prefix = None /\ cpu.current_inst = 184
    /\ prev.cpu.a = 16 /\ AluOperand = 17 /\ prev.cpu.carry
    /\ cpu.a = 16 /\ SubInstead.a = 255
    /\ cpu.sign /\ cpu.carry /\ cpu.add_subtract /\ ~cpu.zero

(***************************************************************************)
(* C36                                                                     *)
(***************************************************************************)
\* the prefix and opcode of the instruction that stands in memory at the PC
\* the last step() started from, as the Z80 encodes them
Encoded ==
    LET at(k) == mem_byte(prev.ram, prev.cpu.pc + k)
    IN IF at(0) \in {203, 237} THEN [instruction_prefix |-> at(0), current_inst |-> at(1)]
       ELSE IF at(0) \in {221, 253} /\ at(1) = 203
       THEN [instruction_prefix |-> 256 * at(0) + 203, current_inst |-> at(3)]
       ELSE IF at(0) \in {221, 253} THEN [instruction_prefix |-> at(0), current_inst |-> at(1)]
       ELSE [instruction_prefix |-> None, current_inst |-> at(0)]

\* the handlers of jumps, calls, returns, RST and the repeating block moves
Transfers ==
    {"jp", "jp_hl", "jr", "jr_cond", "djnz", "call", "ret", "jmp_cond", "call_cond",
     "ret_cond", "rst", "ldir", "lddr"}

\* the last call was a step() on an implemented instruction in memory that
\* is none of those
Sequential ==
    /\ last.op = "step" /\ FromMemory(prev.cpu)
    /\ select(Encoded) \notin Transfers \cup {"None"}

\* the bytes of the instruction: prefixes, opcode, displacement, immediates
EncodedLength ==
    LET p == Encoded.instruction_prefix
        op == Encoded.current_inst
    IN CASE p = None ->
              1 + (IF op \in {6, 14, 22, 30, 38, 46, 54, 62, 211, 219}
                         \/ op \in {198, 206, 214, 222, 230, 238, 246, 254} THEN 1 ELSE 0)
                + (IF op \in {1, 17, 33, 49, 34, 42, 50, 58} THEN 2 ELSE 0)
         [] p = 237 -> 2 + (IF op \in {67, 83, 99, 115, 75, 91, 107, 123} THEN 2 ELSE 0)
         [] p = 203 -> 2
         [] p \in {221, 253} ->
              2 + (IF op = 33 THEN 2 ELSE 0) + (IF op = 54 THEN 1 ELSE 0)
                + (IF op % 8 \in {4, 5, 6} /\ op \in 52..190 THEN 1
                   ELSE IF op \in 112..119 THEN 1 ELSE 0)
         [] OTHER -> 4

\* C36: every implemented instruction that is neither a jump, call, return
\* or RST nor a repeating block instruction, when fetched from memory,
\* advances PC by exactly its encoded length: 1 byte for unprefixed opcodes
\* without operand, plus 1 per immediate or displacement byte and 1 per
\* prefix byte, giving 4 for ED-prefixed nn forms, LD (IX+d),n and all
\* DDCB/FDCB forms.
C36_PcAdvance ==
    Sequential => cpu.pc = prev.cpu.pc + EncodedLength

\* what the code does: as C36 says unless the byte after a CB prefix is 0xCB
\* (C32), when four bytes are consumed for the 2-byte SET 1,E, or PC had
\* left the address space (C5), when the bytes executed are not those of the
\* address the Z80 would fetch from
C36_PcAdvance_ButCbCb ==
    (Sequential /\ prev.cpu.pc >= 0 /\ prev.cpu.pc + 3 <= 65535) =>
        cpu.pc = prev.cpu.pc + (IF CbSecond THEN 4 ELSE EncodedLength)

\* CB CB 00 00 at address 0: SET 1,E is two bytes long and PC is 4
C36_Witness ==
    /\ Sequential /\ prev.cpu.pc = 0
    /\ Encoded = [instruction_prefix |-> 203, current_inst |-> 203]
    /\ EncodedLength = 2 /\ cpu.pc = 4 /\ raised = "none"

(***************************************************************************)
(* Interrupts around DI and EI: programs that enable interrupts twice,     *)
(* driven by step(), schedule_interrupt() and reset().                     *)
(***************************************************************************)
\* LD SP,9000 ; EI ; NOP ; EI ; NOP ; HALT, and the same with DI for the
\* first NOP
QueuePrograms ==
    { Prog(<<49, 0, 144, 251, 0, 251, 0, 118>>),
      Prog(<<49, 0, 144, 251, 243, 251, 0, 118>>) }

InitQueue ==
    /\ cpu = NewCPU
    /\ ram \in QueuePrograms
    /\ raised = "none"
    /\ last = [op |-> "init", data |-> <<>>]
    /\ last2 = [op |-> "init", data |-> <<>>]
    /\ prev = [cpu |-> NewCPU, ram |-> ram, reads |-> <<>>]
    /\ entry = [cpu |-> NewCPU, ram |-> ram]
    /\ nsched = 0
    /\ nreset = 0
    /\ machine = NewMachine
    /\ running = NotRunning

SpecQueue == InitQueue /\ [][Next]_vars

(***************************************************************************)
(* C37                                                                     *)
(***************************************************************************)
\* the last two calls were an EI read from memory and a step() that took
\* its opcode from a queue that was there before the EI
LeftoverRun ==
    /\ last.op = "step" /\ last2.op = "step"
    /\ Executed(prev.cpu, 251) /\ prev.cpu.interrupt_instructions # <<>>

\* C37: in every state reachable through reset, step and
\* schedule_interrupt, the interrupt queue is non-empty only while IFF1 is
\* true: bytes remaining from an injected sequence after IFF1 has been
\* cleared (for example a payload that begins with DI) are discarded and are
\* never executed as instructions after a later EI.
C37_QueueOnlyEnabled ==
    /\ cpu.interrupt_instructions # <<>> => cpu.iff1
    /\ ~LeftoverRun

\* what the code does: DI leaves the queue alone, so with IFF1 clear the
\* queue can hold the rest of a payload that began with DI, and the step
\* after the next EI takes its opcode from it without moving PC
C37_QueueOnlyEnabled_Kept ==
    /\ (cpu.interrupt_instructions # <<>> /\ ~cpu.iff1) =>
           \E p \in Payloads : p[1] = 243 /\ cpu.interrupt_instructions = Tail(p)
    /\ LeftoverRun =>
           /\ cpu.current_inst = prev.cpu.interrupt_instructions[1]
           /\ cpu.interrupt_instructions = Tail(prev.cpu.interrupt_instructions)
           /\ cpu.pc = prev.cpu.pc

\* schedule_interrupt([DI, NOP]) after the first EI: the NOP left in the
\* queue was executed right after the second EI, PC still at 0006
C37_Witness ==
    /\ LeftoverRun /\ prev.cpu.interrupt_instructions = <<0>> /\ prev.cpu.iff1
    /\ Executed(cpu, 0) /\ cpu.interrupt_instructions = <<>>
    /\ cpu.pc = 6 /\ mem_byte(ram, 5) = 251 /\ raised = "none"

(***************************************************************************)
(* Injected instructions with a displacement: IM 0 with IFF1 set, the      *)
(* payload handed to schedule_interrupt, PC = 0 and a byte unlike the      *)
(* payload's displacement in memory at PC.                                 *)
(***************************************************************************)
\* JR +5, JR -5, JR NZ/Z/NC/C +5, DJNZ +5, LD A,(IX+2), LD A,(IY+2)
InjectPayloads ==
    {<<24, 5>>, <<24, 251>>, <<32, 5>>, <<40, 5>>, <<48, 5>>, <<56, 5>>, <<16, 5>>,
     <<221, 126, 2>>, <<253, 126, 2>>}
\* the byte in memory at PC: +3 and -6
InjectAtPC == {3, 250}
InjectFlags == {0, 65}
InjectCounts == {1, 2}

\* cpu._iff1 = True; cpu.ix = cpu.iy = 0x4000; cpu.b, cpu.f;
\* cpu.schedule_interrupt(data)
InjectSetups ==
    LET mem(m0) ==
            Load(0, <<m0, 0, 0, 0, 118, 118, 118>>) @@ Load(16378, <<11>>) @@
            Load(16386, <<7, 9>>)
        z(m0, f, b) ==
            set_f(set_register([Ctx(NewCPU, mem(m0)) EXCEPT
                                   !.iff1 = TRUE, !.ix = 16384, !.iy = 16384], 0, b), f)
    IN {Setup(mem(m0), schedule_interrupt(z(m0, f, b), data)) :
           data \in InjectPayloads, m0 \in InjectAtPC, f \in InjectFlags, b \in InjectCounts}

InitInject ==
    /\ StartsFrom(InjectSetups)
    /\ raised = "none"
    /\ last = [op |-> "init", data |-> <<>>]
    /\ last2 = [op |-> "init", data |-> <<>>]
    /\ prev = [cpu |-> cpu, ram |-> ram, reads |-> <<>>]
    /\ entry = [cpu |-> cpu, ram |-> ram]
    /\ nsched = 0
    /\ nreset = 0
    /\ machine = NewMachine
    /\ running = NotRunning

SpecInject == InitInject /\ [][Step]_vars

(***************************************************************************)
(* C38                                                                     *)
(***************************************************************************)
\* the last call was the step() that took the injected instruction
Injected == FirstStep /\ prev.cpu.iff1 /\ prev.cpu.interrupt_instructions \in InjectPayloads

\* the displacement the payload carries, and the byte in memory at PC
InjectedDisplacement ==
    Signed(prev.cpu.interrupt_instructions[Len(prev.cpu.interrupt_instructions)])
DisplacementAtPC == Signed(mem_byte(prev.ram, prev.cpu.pc))

\* the injected jump is taken
InjectedTaken ==
    LET op == prev.cpu.interrupt_instructions[1]
    IN CASE op = 24 -> TRUE
         [] op = 16 -> prev.cpu.b # 1
         [] op = 32 -> ~prev.cpu.zero
         [] op = 40 -> prev.cpu.zero
         [] op = 48 -> ~prev.cpu.carry
         [] op = 56 -> prev.cpu.carry
         [] OTHER -> FALSE

\* what the step leaves when d is the displacement it used, fetched bytes
\* of memory at PC were read for it and rest is left in the queue
InjectedEffect(d, fetched, rest) ==
    /\ raised = "none"
    /\ cpu.interrupt_instructions = rest
    /\ cpu.pc = prev.cpu.pc + fetched + (IF InjectedTaken THEN d ELSE 0)
    /\ prev.cpu.interrupt_instructions[1] \in {221, 253} =>
           cpu.a = mem_byte(prev.ram, 16384 + d)

\* C38: when an instruction injected in IM 0 has a displacement operand (for
\* example JR d supplied as [0x18, d]), the displacement byte is taken from
\* the interrupt queue like every other byte of that instruction, memory at
\* PC is not read for it, PC is not advanced by the fetch, and the queue is
\* empty after the step.
C38_InjectedDisplacement ==
    Injected => InjectedEffect(InjectedDisplacement, 0, <<>>)

\* what the code does: _fetch_displacement never looks at the queue, so the
\* displacement is the byte in memory at PC, PC moves past it, and the
\* payload's displacement byte stays in the queue as the next opcode
C38_InjectedDisplacement_FromMemory ==
    Injected =>
        InjectedEffect(DisplacementAtPC, 1,
                       <<prev.cpu.interrupt_instructions[Len(prev.cpu.interrupt_instructions)]>>)

\* JR +5 injected at PC = 0 over a byte 03 in memory: PC is 1 + 3 and 05 is
\* still queued
C38_Witness ==
    /\ Injected /\ prev.cpu.interrupt_instructions = <<24, 5>>
    /\ prev.cpu.pc = 0 /\ mem_byte(prev.ram, 0) = 3
    /\ cpu.pc = 4 /\ cpu.interrupt_instructions = <<5>> /\ raised = "none"

(***************************************************************************)
(* Interrupted block moves: NOP, then LDIR or LDDR at address 1 and HALT   *)
(* at 3, RET at the restart addresses; a CPU with IFF1 set, IM 0 or IM 1,  *)
(* SP = 0x9000 and HL, DE, BC set through their properties, driven by      *)
(* step() and schedule_interrupt().                                        *)
(***************************************************************************)
ResumeBCs == {1, 2, 3, 4}
ResumeModes == {0, 1}

ResumeSetups ==
    LET mem(op) ==
            Prog(<<0, 237, op, 118>>) @@
            Load(16380, <<161, 162, 163, 164, 165, 166, 167, 168, 169, 170, 171, 172>>) @@
            Load(65532, <<225, 226, 227, 228>>)
        z(op, hl, de, bc, mode) ==
            set_bc(set_de(set_hl(set_sp(
                [Ctx(NewCPU, mem(op)) EXCEPT !.iff1 = TRUE, !.interrupt_mode = mode],
                36864), hl), de), bc)
    IN {Setup(mem(op), z(op, hl, de, bc, mode)) :
           op \in BlockOps, hl \in BlockHLs, de \in BlockDEs, bc \in ResumeBCs,
           mode \in ResumeModes}

InitResume ==
    /\ StartsFrom(ResumeSetups)
    /\ raised = "none"
    /\ last = [op |-> "init", data |-> <<>>]
    /\ last2 = [op |-> "init", data |-> <<>>]
    /\ prev = [cpu |-> cpu, ram |-> ram, reads |-> <<>>]
    /\ entry = [cpu |-> cpu, ram |-> ram]
    /\ nsched = 0
    /\ nreset = 0
    /\ machine = NewMachine
    /\ running = NotRunning

NextResume == StepWithin(MaxBlockCycles) \/ ScheduleInterrupt

SpecResume == InitResume /\ [][NextResume]_vars

(***************************************************************************)
(* C39                                                                     *)
(***************************************************************************)
\* the last call was a step() that took RST or CALL from the queue right
\* after an iteration of the block move that left BC non-zero
InterruptedBlock ==
    /\ last.op = "step" /\ prev.cpu.iff1
    /\ prev.cpu.interrupt_instructions # <<>>
    /\ prev.cpu.interrupt_instructions[1] \in {205, 223, 255}
    /\ prev.cpu.instruction_prefix = 237 /\ prev.cpu.current_inst \in BlockOps
    /\ Pair(prev.cpu, 0) # 0

\* the last call was the step() that ended the block move
BlockFinished ==
    /\ last.op = "step" /\ FromMemory(prev.cpu) /\ raised = "none"
    /\ cpu.instruction_prefix = 237 /\ cpu.current_inst \in BlockOps
    /\ cpu.pc = 3

\* the context step() calls alone lead to from z, until PC is past the block
\* instruction (at most k calls)
RECURSIVE Uninterrupted(_, _)
Uninterrupted(z, k) ==
    IF k = 0 \/ ~Ok(z) \/ z.pc = 3 THEN z
    ELSE Uninterrupted(step(z), k - 1)

\* the cells below the stack pointer the run started with that the
\* interrupts of one run (nested when one arrives in the handler) can write
StackCells == (entry.cpu.sp - 2 * MaxSched)..(entry.cpu.sp - 1)

\* the push of an interrupt accepted between two iterations
PushedBlockAt ==
    InterruptedBlock =>
        /\ raised = "none"
        /\ prev.cpu.pc = 1
        /\ cpu.sp = prev.cpu.sp - 2
        /\ mem_word(ram, cpu.sp) = 1

\* the block move ended as the uninterrupted run ends, the cells of Apart
\* not compared
ResumedAs(Apart) ==
    BlockFinished =>
        LET u == Uninterrupted(Ctx(entry.cpu, entry.ram), 6)
        IN /\ u.pc = 3 /\ u.exc = "none"
           /\ \A k \in 0..2 : Pair(cpu, k) = Pair(u, k)
           /\ \A a \in (DOMAIN ram \cup DOMAIN u.ram) \ Apart :
                 mem_byte(ram, a) = mem_byte(u.ram, a)

init_cb_instruction_table(op) ==
    CASE op \in 64..127 -> "get_bit"
      [] op \in 128..191 -> "reset_bit"
      [] op \in 192..255 -> "set_bit_reg"
      [] OTHER -> "None"

\* every BIT, RES and SET at address 0 (HALT after it), the operand in its
\* register or at (HL) = 0x4020
CbPageOps == 64..255
CbPageBytes == {1, 170}

CbPageSetups ==
    LET mem(op, x) ==
            IF op % 8 = 6 THEN Load(0, <<203, op, 118>>) @@ Load(16416, <<x>>)
            ELSE Load(0, <<203, op, 118>>)
        z == set_hl(Ctx(NewCPU, <<>>), 16416)
        regs(op, x) == IF op % 8 = 6 THEN z ELSE set_register(z, op % 8, x)
    IN {Setup(mem(op, x), regs(op, x)) : op \in CbPageOps, x \in CbPageBytes}

InitCbPage ==
    /\ StartsFrom(CbPageSetups)
    /\ raised = "none"
    /\ last = [op |-> "init", data |-> <<>>]
    /\ last2 = [op |-> "init", data |-> <<>>]
    /\ prev = [cpu |-> cpu, ram |-> ram, reads |-> <<>>]
    /\ entry = [cpu |-> cpu, ram |-> ram]
    /\ nsched = 0
    /\ nreset = 0
    /\ machine = NewMachine
    /\ running = NotRunning

SpecCbPage == InitCbPage /\ [][Step]_vars

\* the last call was a step() that read a CB-page BIT, RES or SET from memory
CbPageDone ==
    /\ last.op = "step" /\ FromMemory(prev.cpu)
    /\ cpu.instruction_prefix = 203 /\ cpu.current_inst \in 64..255

\* the handler step() found in the slot of the opcode it decoded
Dispatched == select(Ctx(cpu, ram))

\* C40: after CPU construction the seven dispatch tables are independent of
\* each other: initialising the DD, DDCB, FD and FDCB tables leaves every
\* CB-page slot as the CB initialiser set it, so all 192 CB opcodes 0x40-0xFF
\* (BIT, RES and SET for every bit and every operand, including BIT 0,B at
\* CB 40) are bound to their handler.
C40_CbSlotsKept ==
    CbPageDone =>
        /\ Dispatched = init_cb_instruction_table(cpu.current_inst)
        /\ Dispatched # "None"
        /\ raised # "InvalidInstruction"

\* what the code does: the DD initialiser empties the slot of CB 40, the
\* other 191 slots are as the CB initialiser set them
C40_CbSlotsKept_ButBit0B ==
    CbPageDone =>
        IF cpu.current_inst = 64
        THEN /\ Dispatched = "None"
             /\ init_cb_instruction_table(64) = "get_bit"
             /\ raised = "InvalidInstruction"
        ELSE /\ Dispatched = init_cb_instruction_table(cpu.current_inst)
             /\ Dispatched # "None"
             /\ raised # "InvalidInstruction"

\* CB 40 with B = 1 finds no handler: nothing is tested and nothing charged
C40_Witness ==
    /\ CbPageDone /\ cpu.current_inst = 64
    /\ prev.cpu.b = 1 /\ Dispatched = "None"
    /\ raised = "InvalidInstruction"
    /\ cpu.cycles = prev.cpu.cycles /\ cpu.zero = prev.cpu.zero

====
